---- MODULE Spec2Model ----
(***************************************************************************)
(* Risk-gated execution engine of TradeOptions: CostModel, Kelly sizing,   *)
(* RiskManager, StateManager / JSONStateStore, PaperBroker, the market     *)
(* loop's stop-and-reverse, BacktestBroker.                                *)
(*                                                                         *)
(* Money is kept in paise (1/100 rupee) as integers; Python's floats are   *)
(* read as exact reals.  A value the code keeps at full precision is kept  *)
(* exactly (fixed point with 8 further digits, or a fraction n/d); a value *)
(* the code rounds with round(x, 2) is rounded to whole paise here.        *)
(***************************************************************************)
EXTENDS Integers, Sequences, FiniteSets, TLC

Abs(x) == IF x < 0 THEN 0 - x ELSE x
Max(a, b) == IF a >= b THEN a ELSE b

\* floor(n / d) for d > 0 and any n (\div already floors in TLA+)
FloorDiv(n, d) == n \div d

\* int(n / d) of Python for d > 0: truncation toward zero
TruncDiv(n, d) == IF n >= 0 THEN n \div d ELSE 0 - ((0 - n) \div d)

\* round(n / d) to the nearest integer, ties to the even neighbour (Python 3 round)
RoundDiv(n, d) ==
    LET q == n \div d
        r == n % d
    IN  IF 2 * r < d THEN q
        ELSE IF 2 * r > d THEN q + 1
        ELSE IF q % 2 = 0 THEN q ELSE q + 1

RECURSIVE SumSeq(_)
SumSeq(s) == IF s = << >> THEN 0 ELSE Head(s) + SumSeq(Tail(s))

(***************************************************************************)
(* CostModel (src/src/broker/cost_model.py).  Rates are per 10^8 of        *)
(* turnover; turnover is price * quantity in paise.                        *)
(***************************************************************************)
RateScale == 10000 * 10000
SplitBase == 100 * 100

BROKERAGE_PER_ORDER == 2000
STT_PERCENT_SELL == 100000
EXCHANGE_TXN_PERCENT == 35000
STAMP_DUTY_PERCENT_BUY == 3000
SEBI_TURNOVER_FEE == 150
GST_PERCENT == 18

\* turnover * rate / 10^8 at full precision: [w |-> whole paise, f |-> 10^-8 paise],
\* computed in pieces that stay inside TLC's 32-bit integers
TimesRate(turnover, rate) ==
    LET a  == turnover \div SplitBase
        b  == turnover % SplitBase
        x  == a * rate
        y  == b * rate
        x1 == x \div SplitBase
        x0 == x % SplitBase
        lo == x0 * SplitBase + y
    IN  [w |-> x1 + (lo \div RateScale), f |-> lo % RateScale]

FxAdd(p, q) ==
    LET f == p.f + q.f
    IN  [w |-> p.w + q.w + (f \div RateScale), f |-> f % RateScale]

FxInt(n) == [w |-> n, f |-> 0]

\* round(total, 2): the nearest whole paise, ties to even
FxRound(p) ==
    IF 2 * p.f < RateScale THEN p.w
    ELSE IF 2 * p.f > RateScale THEN p.w + 1
    ELSE IF p.w % 2 = 0 THEN p.w ELSE p.w + 1

\* a breakdown that charges the stamp duty on both legs
get_breakdown_stamp_on_both_legs(price, quantity, side) ==
    LET turnover         == price * quantity
        brokerage        == FxInt(BROKERAGE_PER_ORDER)
        stt              == IF side = "SELL" THEN TimesRate(turnover, STT_PERCENT_SELL)
                            ELSE FxInt(0)
        exchange_charges == TimesRate(turnover, EXCHANGE_TXN_PERCENT)
        stamp_duty       == TimesRate(turnover, STAMP_DUTY_PERCENT_BUY)
        sebi_fees        == TimesRate(turnover, SEBI_TURNOVER_FEE)
        \* (brokerage + exchange_charges + sebi_fees) * 0.18, term by term
        gst              == FxAdd(FxInt((BROKERAGE_PER_ORDER * GST_PERCENT) \div 100),
                                  TimesRate(turnover,
                                      ((EXCHANGE_TXN_PERCENT + SEBI_TURNOVER_FEE) * GST_PERCENT)
                                          \div 100))
        total            == FxAdd(brokerage, FxAdd(stt, FxAdd(exchange_charges,
                                FxAdd(stamp_duty, FxAdd(sebi_fees, gst)))))
    IN  [brokerage |-> brokerage, stt |-> stt, exchange_charges |-> exchange_charges,
         stamp_duty |-> stamp_duty, sebi_fees |-> sebi_fees, gst |-> gst,
         total |-> FxRound(total)]

get_breakdown(price, quantity, side) ==
    LET turnover         == price * quantity
        brokerage        == FxInt(BROKERAGE_PER_ORDER)
        stt              == IF side = "SELL" THEN TimesRate(turnover, STT_PERCENT_SELL)
                            ELSE FxInt(0)
        exchange_charges == TimesRate(turnover, EXCHANGE_TXN_PERCENT)
        stamp_duty       == IF side = "BUY" THEN TimesRate(turnover, STAMP_DUTY_PERCENT_BUY)
                            ELSE FxInt(0)
        sebi_fees        == TimesRate(turnover, SEBI_TURNOVER_FEE)
        \* (brokerage + exchange_charges + sebi_fees) * 0.18, term by term
        gst              == FxAdd(FxInt((BROKERAGE_PER_ORDER * GST_PERCENT) \div 100),
                                  TimesRate(turnover,
                                      ((EXCHANGE_TXN_PERCENT + SEBI_TURNOVER_FEE) * GST_PERCENT)
                                          \div 100))
        total            == FxAdd(brokerage, FxAdd(stt, FxAdd(exchange_charges,
                                FxAdd(stamp_duty, FxAdd(sebi_fees, gst)))))
    IN  [brokerage |-> brokerage, stt |-> stt, exchange_charges |-> exchange_charges,
         stamp_duty |-> stamp_duty, sebi_fees |-> sebi_fees, gst |-> gst,
         total |-> FxRound(total)]

calculate_transaction_cost(price, quantity, side) == get_breakdown(price, quantity, side).total

(***************************************************************************)
(* KellyRiskStrategy (src/risk/strategies/kelly.py), defaults of __init__. *)
(* win_rate is WIN_RATE_PCT / 100.                                         *)
(***************************************************************************)
WIN_RATE_PCT == 45
PAYOFF_RATIO == 2
LOT_SIZE == 25
RISK_CAP_PCT == 5

\* allowed_fraction = min(kelly_fraction / 4, risk_cap_pct) as a fraction num / den,
\* for a win rate of win_rate_pct / 100 and a cap of risk_cap_pct / 100
kelly_allowed_fraction(win_rate_pct, payoff_ratio, risk_cap_pct) ==
    LET kn == win_rate_pct * (payoff_ratio + 1) - 100   \* f* = kn / (100 * b)
        kd == 100 * payoff_ratio * 4                     \* quarter Kelly
    IN  IF kn * 100 <= risk_cap_pct * kd
        THEN [num |-> kn, den |-> kd]
        ELSE [num |-> risk_cap_pct, den |-> 100]

KellyAllowedFraction == kelly_allowed_fraction(WIN_RATE_PCT, PAYOFF_RATIO, RISK_CAP_PCT)

\* a sizing that takes the nearest whole number of lots
kelly_size_nearest_lot(win_rate_pct, payoff_ratio, lot_size, capital, entry_price, stop_loss, risk_cap_pct) ==
    LET fr             == kelly_allowed_fraction(win_rate_pct, payoff_ratio, risk_cap_pct)
        risk_per_share == Abs(entry_price - stop_loss)
    IN  IF payoff_ratio <= 0 THEN 0
        ELSE IF fr.num <= 0 THEN 0
        ELSE IF risk_per_share <= 0 THEN 0
        ELSE RoundDiv(capital * fr.num, fr.den * risk_per_share * lot_size) * lot_size

\* calculate_size of a strategy built with (win_rate, payoff_ratio, lot_size)
kelly_size(win_rate_pct, payoff_ratio, lot_size, capital, entry_price, stop_loss, risk_cap_pct) ==
    LET fr             == kelly_allowed_fraction(win_rate_pct, payoff_ratio, risk_cap_pct)
        risk_per_share == Abs(entry_price - stop_loss)
        raw_quantity   == TruncDiv(capital * fr.num, fr.den * risk_per_share)
        lots           == FloorDiv(raw_quantity, lot_size)
    IN  IF payoff_ratio <= 0 THEN 0
        ELSE IF fr.num <= 0 THEN 0
        ELSE IF risk_per_share <= 0 THEN 0
        ELSE lots * lot_size

\* calculate_size as the risk manager calls it: the default strategy, the 5% cap
calculate_size(capital, entry_price, stop_loss) ==
    kelly_size(WIN_RATE_PCT, PAYOFF_RATIO, LOT_SIZE, capital, entry_price, stop_loss,
               RISK_CAP_PCT)

(***************************************************************************)
(* RiskManager (src/risk/risk_manager.py).  An instance is the record      *)
(* [total_capital, current_capital, max_daily_loss_limit, daily_pnl,       *)
(*  kill_switch_active]; a method is an operator returning the instance    *)
(* after the call, and its result where it has one.                        *)
(***************************************************************************)
MAX_DAILY_LOSS_PCT == 5
MIN_RISK_REWARD_RATIO == 2

RiskManagerInit(total_capital) ==
    [total_capital        |-> total_capital,
     current_capital      |-> total_capital,
     max_daily_loss_limit |-> 0 - ((total_capital * MAX_DAILY_LOSS_PCT) \div 100),
     daily_pnl            |-> 0,
     kill_switch_active   |-> FALSE]

\* the value check_kill_switch returns
KillSwitchResult(r) == r.daily_pnl <= r.max_daily_loss_limit

\* the instance after check_kill_switch
check_kill_switch(r) ==
    IF r.daily_pnl <= r.max_daily_loss_limit
    THEN [r EXCEPT !.kill_switch_active = TRUE]
    ELSE r

\* the dict validate_trade_setup returns
validate_trade_setup(r, entry_price, stop_loss, target_price) ==
    LET risk   == Abs(entry_price - stop_loss)
        reward == Abs(target_price - entry_price)
    IN  IF KillSwitchResult(r) THEN [approved |-> FALSE, reason |-> "Kill Switch Active"]
        ELSE IF risk <= 0 THEN [approved |-> FALSE, reason |-> "Invalid Risk"]
        ELSE IF reward < MIN_RISK_REWARD_RATIO * risk
             THEN [approved |-> FALSE, reason |-> "R:R below minimum"]
        ELSE [approved |-> TRUE, reason |-> "Approved"]

get_target_size(r, entry_price, stop_loss) ==
    IF r.kill_switch_active THEN 0
    ELSE calculate_size(r.current_capital, entry_price, stop_loss)

update_pnl(r, pnl) ==
    check_kill_switch([r EXCEPT !.daily_pnl = @ + pnl, !.current_capital = @ + pnl])

\* a restore that leaves current_capital as it was
restore_state_keeps_capital(r, daily_pnl, kill_switch_active) ==
    [r EXCEPT !.daily_pnl = daily_pnl, !.kill_switch_active = kill_switch_active]

restore_state(r, daily_pnl, kill_switch_active) ==
    [r EXCEPT !.daily_pnl = daily_pnl,
              !.current_capital = r.total_capital + daily_pnl,
              !.kill_switch_active = kill_switch_active]

(***************************************************************************)
(* TradeState, JSONStateStore, StateManager (src/state/state_manager.py).  *)
(* open_positions is the dict in insertion order: a sequence of position   *)
(* records with distinct symbols.  last_updated and "today" are day        *)
(* numbers.  A file is absent, unparsable, or a JSON object: the keys in   *)
(* the order written and the values beside them.                           *)
(***************************************************************************)
TradeStateFields ==
    <<"daily_pnl", "kill_switch_active", "open_positions", "orders", "closed_trades",
      "last_updated">>

\* TradeState(): the dataclass defaults; last_updated defaults to now
TradeStateInit(today) ==
    [daily_pnl |-> 0, kill_switch_active |-> FALSE, open_positions |-> << >>,
     orders |-> << >>, closed_trades |-> << >>, last_updated |-> today]

AbsentFile == [kind |-> "absent"]
CorruptFile == [kind |-> "corrupt"]

SeqToSet(s) == {s[i] : i \in DOMAIN s}

\* asdict(state): the fields in declaration order
asdict(st) ==
    [keys |-> TradeStateFields,
     vals |-> <<st.daily_pnl, st.kill_switch_active, st.open_positions, st.orders,
                st.closed_trades, st.last_updated>>]

\* json.dump(data, f): the complete document
json_dump(data) == [kind |-> "json", keys |-> data.keys, vals |-> data.vals]

JsonHas(doc, k) == \E i \in DOMAIN doc.keys : doc.keys[i] = k
JsonGet(doc, k) == doc.vals[CHOOSE i \in DOMAIN doc.keys : doc.keys[i] = k]

\* TradeState(**data): a key that is no field is a TypeError; a missing key takes
\* the field's default
TradeStateFromDict(doc, today) ==
    LET d == TradeStateInit(today)
    IN  [daily_pnl          |-> IF JsonHas(doc, "daily_pnl")
                                THEN JsonGet(doc, "daily_pnl") ELSE d.daily_pnl,
         kill_switch_active |-> IF JsonHas(doc, "kill_switch_active")
                                THEN JsonGet(doc, "kill_switch_active")
                                ELSE d.kill_switch_active,
         open_positions     |-> IF JsonHas(doc, "open_positions")
                                THEN JsonGet(doc, "open_positions") ELSE d.open_positions,
         orders             |-> IF JsonHas(doc, "orders")
                                THEN JsonGet(doc, "orders") ELSE d.orders,
         closed_trades      |-> IF JsonHas(doc, "closed_trades")
                                THEN JsonGet(doc, "closed_trades") ELSE d.closed_trades,
         last_updated       |-> IF JsonHas(doc, "last_updated")
                                THEN JsonGet(doc, "last_updated") ELSE d.last_updated]

\* a load that also discards the document saved today
JSONStateStore_load_discards_today(f, today) ==
    IF f.kind # "json" THEN TradeStateInit(today)
    ELSE LET last_updated == IF JsonHas(f, "last_updated")
                             THEN JsonGet(f, "last_updated") ELSE today
         IN  IF last_updated <= today THEN TradeStateInit(today)
             ELSE TradeStateFromDict(f, today)

\* JSONStateStore.load
JSONStateStore_load(f, today) ==
    IF f.kind = "absent" THEN TradeStateInit(today)
    ELSE IF f.kind = "corrupt" THEN TradeStateInit(today)          \* JSONDecodeError
    ELSE LET last_updated == IF JsonHas(f, "last_updated")
                             THEN JsonGet(f, "last_updated") ELSE today
         IN  IF last_updated < today THEN TradeStateInit(today)    \* new day
             ELSE IF ~(SeqToSet(f.keys) \subseteq SeqToSet(TradeStateFields))
                  THEN TradeStateInit(today)                       \* TypeError, caught
             ELSE TradeStateFromDict(f, today)

\* JSONStateStore.save, step by step.  A ledger is the record [state, file, tmp]:
\* StateManager.state, trading_state.json and trading_state.json.tmp.
\* lines 41-45: last_updated is set and the tmp file is opened for writing, which
\* leaves it empty (no JSON document) until the dump is through
save_open_tmp(l, today) == [l EXCEPT !.state.last_updated = today, !.tmp = CorruptFile]

\* line 46: the document is written to the tmp file
save_dump(l) == [l EXCEPT !.tmp = json_dump(asdict(l.state))]

save_write_tmp(l, today) == save_dump(save_open_tmp(l, today))

\* lines 48-49: os.remove(filepath) if it exists
save_remove(l) == [l EXCEPT !.file = AbsentFile]

\* line 50: os.rename(tmp_path, filepath)
save_rename(l) == [l EXCEPT !.file = l.tmp, !.tmp = AbsentFile]

\* JSONStateStore.save when no step of it fails
JSONStateStore_save(l, today) == save_rename(save_remove(save_write_tmp(l, today)))

PosIndex(positions, symbol) ==
    IF \E i \in DOMAIN positions : positions[i].symbol = symbol
    THEN CHOOSE i \in DOMAIN positions : positions[i].symbol = symbol
    ELSE 0

HasPosition(positions, symbol) == PosIndex(positions, symbol) # 0
GetPosition(positions, symbol) == positions[PosIndex(positions, symbol)]

\* open_positions[symbol] = details: a present key keeps its place in the dict
SetPosition(positions, symbol, details) ==
    IF HasPosition(positions, symbol)
    THEN [positions EXCEPT ![PosIndex(positions, symbol)] = details]
    ELSE Append(positions, details)

\* del open_positions[symbol]
DelPosition(positions, symbol) ==
    LET k == PosIndex(positions, symbol)
    IN  [i \in 1..(Len(positions) - 1) |-> IF i < k THEN positions[i] ELSE positions[i + 1]]

\* what each StateManager call does to self.state before it saves
state_update_pnl(st, pnl) == [st EXCEPT !.daily_pnl = @ + pnl]
state_set_kill_switch(st, active) == [st EXCEPT !.kill_switch_active = active]
state_add_position(st, symbol, details) ==
    [st EXCEPT !.open_positions = SetPosition(@, symbol, details)]

\* a close that leaves the position in the map
state_close_position_keeps_it(st, symbol) == st

state_close_position(st, symbol) == [st EXCEPT !.open_positions = DelPosition(@, symbol)]

state_add_order(st, order) == [st EXCEPT !.orders = Append(@, order)]

SM_update_pnl(l, pnl, today) ==
    JSONStateStore_save([l EXCEPT !.state = state_update_pnl(@, pnl)], today)

SM_set_kill_switch(l, active, today) ==
    JSONStateStore_save([l EXCEPT !.state = state_set_kill_switch(@, active)], today)

SM_add_position(l, symbol, details, today) ==
    JSONStateStore_save([l EXCEPT !.state = state_add_position(@, symbol, details)], today)

SM_close_position(l, symbol, today) ==
    IF HasPosition(l.state.open_positions, symbol)
    THEN JSONStateStore_save([l EXCEPT !.state = state_close_position(@, symbol)], today)
    ELSE l

SM_add_order(l, order, today) ==
    JSONStateStore_save([l EXCEPT !.state = state_add_order(@, order)], today)

\* StateManager.add_closed_trade is called by PaperBroker.close_position and
\* state.closed_trades is read by the server, but src/state/state_manager.py defines
\* neither: modelled as the specification describes the ClosedTrade list (append
\* only, saved like every other mutation)
SM_add_closed_trade(l, trade, today) ==
    JSONStateStore_save([l EXCEPT !.state.closed_trades = Append(@, trade)], today)

\* StateManager.load
SM_load(l, today) == [l EXCEPT !.state = JSONStateStore_load(l.file, today)]

(***************************************************************************)
(* PaperBroker (src/src/broker/paper_broker.py).  A world is the record    *)
(* [rm, l, pb]: the RiskManager instance and the ledger the broker was     *)
(* built with, and the broker's own attributes.  A method returns          *)
(* [w |-> the world after the call, res |-> its result]; status "raised"   *)
(* stands for an exception leaving the method.  pb.slippage_pct counts     *)
(* 1/SLIPPAGE_DEN: the server's 0.0005 is SLIPPAGE_NUM.                     *)
(***************************************************************************)
SLIPPAGE_NUM == 5
SLIPPAGE_DEN == 10000

\* price * slippage_pct is a whole number of paise (the prices of the model are
\* chosen so: executed_price and round(executed_price, 2) are then the same number)
ExactSlippage(w, price) == (price * w.pb.slippage_pct) % SLIPPAGE_DEN = 0

\* _parse_symbol: the option type after the strike digits, "OPT" when none
parse_option_type(symbol) ==
    IF symbol \in {"NIFTY25000CE"} THEN "CE"
    ELSE IF symbol \in {"NIFTY25000PE"} THEN "PE"
    ELSE "OPT"

OrderTypes == {"MARKET", "LIMIT", "SL", "SL-M"}

\* a validation layer that leaves the capital rule out
validation_errors_no_capital_rule(w, symbol, quantity, side, order_type, price, trigger_price) ==
    (IF quantity <= 0 THEN {"Quantity must be positive"} ELSE {})
    \cup (IF symbol = "" THEN {"Invalid symbol"} ELSE {})
    \cup (IF side \notin {"BUY", "SELL"} THEN {"Side must be BUY or SELL"} ELSE {})
    \cup (IF order_type \notin OrderTypes THEN {"Invalid order type"} ELSE {})
    \cup (IF order_type \in {"MARKET", "LIMIT", "SL"} /\ price <= 0
          THEN {"order requires valid price"} ELSE {})
    \cup (IF order_type = "SL-M" /\ trigger_price <= 0
          THEN {"SL-M order requires valid trigger_price"} ELSE {})

\* the validation layer: the set of rules the call breaks (every symbol of the
\* model but "" has three characters or more)
validation_errors(w, symbol, quantity, side, order_type, price, trigger_price) ==
    (IF quantity <= 0 THEN {"Quantity must be positive"} ELSE {})
    \cup (IF symbol = "" THEN {"Invalid symbol"} ELSE {})
    \cup (IF side \notin {"BUY", "SELL"} THEN {"Side must be BUY or SELL"} ELSE {})
    \cup (IF order_type \notin OrderTypes THEN {"Invalid order type"} ELSE {})
    \cup (IF order_type \in {"MARKET", "LIMIT", "SL"} /\ price <= 0
          THEN {"order requires valid price"} ELSE {})
    \cup (IF order_type = "SL-M" /\ trigger_price <= 0
          THEN {"SL-M order requires valid trigger_price"} ELSE {})
    \cup (IF side = "BUY" /\ price > 0
             /\ price * quantity + calculate_transaction_cost(price, quantity, side)
                    > w.rm.current_capital
          THEN {"Insufficient capital"} ELSE {})

\* slippage of the fill
paper_slippage(w, side, order_type, price) ==
    IF order_type = "MARKET" /\ side \in {"BUY", "SELL"}
    THEN (price * w.pb.slippage_pct) \div SLIPPAGE_DEN
    ELSE 0

\* executed_price by order type
paper_executed_price(w, side, order_type, price, trigger_price) ==
    IF order_type = "MARKET"
    THEN IF side = "BUY" THEN price + paper_slippage(w, side, order_type, price)
         ELSE IF side = "SELL" THEN price - paper_slippage(w, side, order_type, price)
         ELSE price
    ELSE IF order_type = "SL-M" THEN trigger_price
    ELSE price

\* an average of the two prices that leaves the quantities out
paper_avg_price_unweighted(old_entry, old_qty, executed_price, quantity) ==
    RoundDiv(old_entry + executed_price, 2)

\* round(avg_price, 2) of the average-up branch
paper_avg_price(old_entry, old_qty, executed_price, quantity) ==
    RoundDiv(old_entry * old_qty + executed_price * quantity, old_qty + quantity)

\* a fill that also takes the traded value out of (BUY) or into (SELL) the capital
place_order_filled_debits(w, l, side, value) ==
    [w EXCEPT !.l = l,
              !.rm.current_capital = IF side = "BUY" THEN @ - value ELSE @ + value]

\* what a fill leaves behind (lines 143-204): the ledger with the position and the
\* order record; capital waits for update_pnl at the close
place_order_filled(w, l, side, value) == [w EXCEPT !.l = l]

PaperPlaceOrder(w, symbol, quantity, side, order_type, price, trigger_price, stop_loss, target, today) ==
    LET errs           == validation_errors(w, symbol, quantity, side, order_type, price,
                                            trigger_price)
        slippage       == paper_slippage(w, side, order_type, price)
        executed_price == paper_executed_price(w, side, order_type, price, trigger_price)
        costs          == calculate_transaction_cost(executed_price, quantity, side)
        positions      == w.l.state.open_positions
        existing       == HasPosition(positions, symbol)
        old            == GetPosition(positions, symbol)
        details        == IF existing
                          THEN [old EXCEPT
                                  !.quantity = old.quantity + quantity,
                                  !.entry_price = paper_avg_price(old.entry_price,
                                                      old.quantity, executed_price, quantity)]
                          ELSE [symbol |-> symbol, side |-> side, quantity |-> quantity,
                                entry_price |-> executed_price, stop_loss |-> stop_loss,
                                target |-> target,
                                option_type |-> parse_option_type(symbol)]
        l1             == IF side = "BUY"
                          THEN SM_add_position(w.l, symbol, details, today)
                          ELSE w.l
        order_record   == [symbol |-> symbol, side |-> side, quantity |-> quantity,
                           price |-> executed_price, status |-> "EXECUTED",
                           slippage |-> slippage, costs |-> costs, pnl |-> 0]
        l2             == SM_add_order(l1, order_record, today)
    IN  IF errs # {}
        THEN [w |-> w,
              res |-> [status |-> "REJECTED", errors |-> errs, average_price |-> 0,
                       slippage |-> 0, costs |-> 0]]
        ELSE [w |-> place_order_filled(w, l2, side, executed_price * quantity + costs),
              res |-> [status |-> "COMPLETE", errors |-> {},
                       average_price |-> executed_price, slippage |-> slippage,
                       costs |-> costs]]

\* net_pnl of close_position: gross by the entry side, less both legs' cost
paper_net_pnl(entry_side, entry_price, exit_price, qty) ==
    LET exit_side   == IF entry_side = "BUY" THEN "SELL" ELSE "BUY"
        gross_pnl   == IF entry_side = "BUY" THEN (exit_price - entry_price) * qty
                       ELSE (entry_price - exit_price) * qty
        exit_costs  == get_breakdown(exit_price, qty, exit_side).total
        entry_costs == get_breakdown(entry_price, qty, entry_side).total
    IN  gross_pnl - exit_costs - entry_costs

NoClose == [status |-> "error", exit_price |-> 0, net_pnl |-> 0]

\* close_position from the exit order's result ex on (lines 245-336): the P&L goes
\* to the ledger and to the risk manager, the position leaves the ledger, the
\* closed trade is recorded
close_position_settle(ex, pos, symbol, net_pnl, reason, today) ==
    LET l1           == SM_update_pnl(ex.w.l, net_pnl, today)
        l2           == SM_close_position(l1, symbol, today)
        closed_trade == [symbol |-> symbol, action |-> pos.side, quantity |-> pos.quantity,
                         entryPrice |-> pos.entry_price,
                         exitPrice |-> ex.res.average_price, pnl |-> net_pnl,
                         exitReason |-> reason]
    IN  IF ex.res.status = "REJECTED"
        \* exec_result["average_price"]: a rejection carries no such key (KeyError)
        THEN [w |-> ex.w, res |-> [NoClose EXCEPT !.status = "raised"]]
        ELSE [w |-> [ex.w EXCEPT !.rm = update_pnl(ex.w.rm, net_pnl),
                                 !.l = SM_add_closed_trade(l2, closed_trade, today)],
              res |-> [status |-> "closed", exit_price |-> ex.res.average_price,
                       net_pnl |-> net_pnl]]

close_position_fill(ex, pos, symbol, reason, today) ==
    close_position_settle(ex, pos, symbol,
                          paper_net_pnl(pos.side, pos.entry_price, ex.res.average_price,
                                        pos.quantity),
                          reason, today)

close_position_held(w, pos, symbol, price, reason, today) ==
    close_position_fill(
        PaperPlaceOrder(w, symbol, pos.quantity, IF pos.side = "BUY" THEN "SELL" ELSE "BUY",
                        "MARKET", price, 0, 0, 0, today),
        pos, symbol, reason, today)

PaperClosePosition(w, symbol, price, reason, today) ==
    IF ~HasPosition(w.l.state.open_positions, symbol)
    THEN [w |-> w, res |-> NoClose]
    ELSE close_position_held(w, GetPosition(w.l.state.open_positions, symbol), symbol, price,
                             reason, today)

(***************************************************************************)
(* Fractions n/d (d > 0, lowest terms) for the values BacktestBroker keeps *)
(* unrounded: the averaged entry price, the P&L, the capital.              *)
(***************************************************************************)
RECURSIVE GCD(_, _)
GCD(a, b) == IF b = 0 THEN a ELSE GCD(b, a % b)

QNorm(n, d) ==
    LET g == GCD(Abs(n), d)
    IN  [n |-> n \div g, d |-> d \div g]

QInt(i) == [n |-> i, d |-> 1]
QAdd(a, b) == QNorm(a.n * b.d + b.n * a.d, a.d * b.d)
QSub(a, b) == QNorm(a.n * b.d - b.n * a.d, a.d * b.d)
QMulInt(a, k) == QNorm(a.n * k, a.d)
QLe(a, b) == a.n * b.d <= b.n * a.d

\* round(x, 2) of a fraction of paise: the nearest whole paise, ties to even
QRound(a) == RoundDiv(a.n, a.d)

(***************************************************************************)
(* BacktestBroker (src/src/broker/backtest_broker.py).  An instance is the *)
(* record [capital, initial_capital, slippage_pct, active_positions,       *)
(* trades, total_brokerage, total_taxes]; slippage_pct counts 1/100 of a   *)
(* percent, so that slippage_multiplier is (BpScale + slippage_pct) /      *)
(* BpScale.                                                                *)
(***************************************************************************)
BpScale == 100 * 100

BacktestBrokerInit(initial_capital, slippage_pct) ==
    [capital |-> QInt(initial_capital), initial_capital |-> initial_capital,
     slippage_pct |-> slippage_pct, active_positions |-> << >>, trades |-> << >>,
     total_brokerage |-> FxInt(0), total_taxes |-> FxInt(0)]

\* executed_price: price * slippage_multiplier for a BUY, price / slippage_multiplier
\* otherwise
bt_executed_price(b, side, price) ==
    IF side = "BUY" THEN (price * (BpScale + b.slippage_pct)) \div BpScale
    ELSE (price * BpScale) \div (BpScale + b.slippage_pct)

\* the executed price is a whole number of paise (the prices of the model are chosen
\* so)
BtExactSlippage(b, side, price) ==
    IF side = "BUY" THEN (price * (BpScale + b.slippage_pct)) % BpScale = 0
    ELSE (price * BpScale) % (BpScale + b.slippage_pct) = 0

\* avg_price of the average-up branch, unrounded
bt_avg_price(entry_price, old_qty, executed_price, quantity) ==
    QNorm(entry_price.n * old_qty + executed_price * quantity * entry_price.d,
          entry_price.d * (old_qty + quantity))

\* pnl of the SELL branch: gross_pnl - total_costs
bt_pnl(entry_price, executed_price, quantity, total_costs) ==
    QSub(QNorm((executed_price * entry_price.d - entry_price.n) * quantity, entry_price.d),
         QInt(total_costs))

BacktestPlaceOrder(b, symbol, quantity, side, price, stop_loss, target, strategy_tag, timestamp, now) ==
    LET executed_price == bt_executed_price(b, side, price)
        cost_breakdown == get_breakdown(executed_price, quantity, side)
        total_costs    == cost_breakdown.total
        taxes          == FxAdd(cost_breakdown.stt, FxAdd(cost_breakdown.stamp_duty,
                              FxAdd(cost_breakdown.exchange_charges,
                                  FxAdd(cost_breakdown.sebi_fees, cost_breakdown.gst))))
        positions      == b.active_positions
        held           == HasPosition(positions, symbol)
        curr           == GetPosition(positions, symbol)
        pnl            == IF side = "SELL" /\ held
                          THEN bt_pnl(curr.entry_price, executed_price, quantity, total_costs)
                          ELSE QInt(0)
        capital        == IF side = "BUY"
                          THEN QSub(b.capital, QInt(executed_price * quantity + total_costs))
                          ELSE QAdd(b.capital, pnl)
        bought         == IF held
                          THEN [curr EXCEPT
                                  !.quantity = curr.quantity + quantity,
                                  !.entry_price = bt_avg_price(curr.entry_price, curr.quantity,
                                                               executed_price, quantity)]
                          ELSE [symbol |-> symbol, quantity |-> quantity,
                                entry_price |-> QInt(executed_price), stop_loss |-> stop_loss,
                                target |-> target, strategy |-> strategy_tag]
        new_positions  == IF side = "BUY" THEN SetPosition(positions, symbol, bought)
                          ELSE IF side = "SELL" /\ held
                          THEN IF curr.quantity - quantity <= 0
                               THEN DelPosition(positions, symbol)
                               ELSE SetPosition(positions, symbol,
                                        [curr EXCEPT !.quantity = curr.quantity - quantity])
                          ELSE positions
        \* timestamp if timestamp else datetime.now(): 0 stands for None
        trade_record   == [timestamp |-> IF timestamp # 0 THEN timestamp ELSE now,
                           order_id |-> Len(b.trades) + 1, symbol |-> symbol, side |-> side,
                           quantity |-> quantity, price |-> executed_price,
                           strategy |-> strategy_tag, costs |-> total_costs, pnl |-> pnl]
    IN  [b |-> [b EXCEPT !.capital = capital,
                         !.active_positions = new_positions,
                         !.trades = Append(@, trade_record),
                         !.total_brokerage = FxAdd(@, cost_breakdown.brokerage),
                         !.total_taxes = FxAdd(@, taxes)],
         res |-> [order_id |-> Len(b.trades) + 1, status |-> "COMPLETE",
                  average_price |-> executed_price, quantity |-> quantity,
                  costs |-> total_costs]]

\* place_order with the order type and the trigger price given: the method takes
\* both and reads neither (lines 28-39 use price and slippage_pct alone)
BacktestPlaceOrderTyped(b, symbol, quantity, side, order_type, price, trigger_price, strategy_tag, now) ==
    BacktestPlaceOrder(b, symbol, quantity, side, price, 0, 0, strategy_tag, 0, now)

\* get_pnl: unrealized P&L of a symbol at current_ltp, 0 when it is not held
bt_get_pnl(b, symbol, current_ltp) ==
    IF ~HasPosition(b.active_positions, symbol) THEN QInt(0)
    ELSE LET pos == GetPosition(b.active_positions, symbol)
         IN  QNorm((current_ltp * pos.entry_price.d - pos.entry_price.n) * pos.quantity,
                   pos.entry_price.d)

(***************************************************************************)
(* BacktestRunner.run (src/src/backtest_runner.py), one row at a time.  A  *)
(* run is [b, cfg, equity_curve]: the broker, the arguments of the run     *)
(* [stop_loss_pct, target_profit_pct, strike_selection], and the equity    *)
(* points so far.  A row is [past_exit, can_enter, call_price, put_price,  *)
(* atm_strike, signal, risk_per_trade]: the two time gates already         *)
(* compared, the prices, and what strategy.process_tick answers on it.     *)
(***************************************************************************)
RUNNER_LOT_SIZE == 65

BtOptionType(symbol) ==
    IF symbol \in {"NIFTY 24900 CE", "NIFTY 25000 CE", "NIFTY 25100 CE"} THEN "CE" ELSE "PE"

\* curr_price of a position on a row
RowPrice(row, symbol) ==
    IF BtOptionType(symbol) = "CE" THEN row.call_price ELSE row.put_price

\* the symbol of the entry: f"NIFTY {selected_strike} {option_type}"
EntrySymbol(strike_selection, atm_strike, option_type) ==
    LET itm == IF option_type = "CE" THEN atm_strike - 100 ELSE atm_strike + 100
        otm == IF option_type = "CE" THEN atm_strike + 100 ELSE atm_strike - 100
        selected_strike == IF strike_selection = "itm" THEN itm
                           ELSE IF strike_selection = "otm" THEN otm
                           ELSE atm_strike
    IN  IF option_type = "CE"
        THEN (IF selected_strike = 24900 THEN "NIFTY 24900 CE"
              ELSE IF selected_strike = 25100 THEN "NIFTY 25100 CE" ELSE "NIFTY 25000 CE")
        ELSE (IF selected_strike = 24900 THEN "NIFTY 24900 PE"
              ELSE IF selected_strike = 25100 THEN "NIFTY 25100 PE" ELSE "NIFTY 25000 PE")

\* a loop "for pos in snapshot: place_order(SELL pos.quantity at the row's price)",
\* from position i on
RECURSIVE CloseAll(_, _, _, _, _, _, _)
CloseAll(b, snapshot, i, row, tag, timestamp, now) ==
    IF i > Len(snapshot) THEN b
    ELSE CloseAll(BacktestPlaceOrder(b, snapshot[i].symbol, snapshot[i].quantity, "SELL",
                                     RowPrice(row, snapshot[i].symbol), 0, 0, tag,
                                     timestamp, now).b,
                  snapshot, i + 1, row, tag, timestamp, now)

\* pos_pnl_pct <= -stop_loss_pct and pos_pnl_pct >= target_profit_pct, with
\* pos_pnl_pct = ((curr_price - entry_price) / entry_price) * 100
PositionStopHit(cfg, pos, curr_price) ==
    /\ cfg.stop_loss_pct > 0
    /\ (curr_price * pos.entry_price.d - pos.entry_price.n) * 100
           <= (0 - cfg.stop_loss_pct) * pos.entry_price.n

\* a target test that never holds
PositionTargetHit_never(cfg, pos, curr_price) == FALSE

PositionTargetHit(cfg, pos, curr_price) ==
    /\ cfg.target_profit_pct > 0
    /\ (curr_price * pos.entry_price.d - pos.entry_price.n) * 100
           >= cfg.target_profit_pct * pos.entry_price.n

\* the position-level check over open_positions[:]: [b, can_enter]
RECURSIVE PositionChecks(_, _, _, _, _, _)
PositionChecks(b, cfg, snapshot, i, row, can_enter) ==
    IF i > Len(snapshot) THEN [b |-> b, can_enter |-> can_enter]
    ELSE LET pos        == snapshot[i]
             curr_price == RowPrice(row, pos.symbol)
             tag        == IF PositionStopHit(cfg, pos, curr_price) THEN "POSITION_SL"
                           ELSE IF PositionTargetHit(cfg, pos, curr_price) THEN "POSITION_TP"
                           ELSE ""
         IN  IF tag = "" THEN PositionChecks(b, cfg, snapshot, i + 1, row, can_enter)
             ELSE PositionChecks(
                      BacktestPlaceOrder(b, pos.symbol, pos.quantity, "SELL", curr_price, 0, 0,
                                         tag, row.timestamp, 0).b,
                      cfg, snapshot, i + 1, row, FALSE)

\* the sum of get_pnl over the open positions at the row's prices
RECURSIVE Unrealized(_, _, _)
Unrealized(b, i, row) ==
    IF i > Len(b.active_positions) THEN QInt(0)
    ELSE QAdd(bt_get_pnl(b, b.active_positions[i].symbol,
                         RowPrice(row, b.active_positions[i].symbol)),
              Unrealized(b, i + 1, row))

\* the global gate: [b, can_enter]
GlobalChecks(b, cfg, row, can_enter) ==
    LET unrealized_pnl == Unrealized(b, 1, row)
        \* pnl_pct = (unrealized_pnl / capital) * 100 if capital > 0 else 0
        pnl_x_capital  == IF b.capital.n > 0 THEN QMulInt(unrealized_pnl, 100) ELSE QInt(0)
        scale          == IF b.capital.n > 0 THEN b.capital ELSE QInt(1)
        stop   == cfg.stop_loss_pct > 0
                  /\ QLe(pnl_x_capital, QMulInt(scale, 0 - cfg.stop_loss_pct))
        target == cfg.target_profit_pct > 0
                  /\ QLe(QMulInt(scale, cfg.target_profit_pct), pnl_x_capital)
    IN  IF stop
        THEN [b |-> CloseAll(b, b.active_positions, 1, row, "GLOBAL_SL", row.timestamp, 0), can_enter |-> FALSE]
        ELSE IF target
        THEN [b |-> CloseAll(b, b.active_positions, 1, row, "GLOBAL_TP", row.timestamp, 0), can_enter |-> FALSE]
        ELSE [b |-> b, can_enter |-> can_enter]

\* qty of the entry: max(1, round(risk_amount / entry_price / lot_size)) lots
EntryQuantity(b, entry_price, risk_per_trade) ==
    LET num_lots == Max(1, RoundDiv(b.capital.n * risk_per_trade,
                                    b.capital.d * 100 * entry_price * RUNNER_LOT_SIZE))
    IN  IF entry_price > 0 THEN num_lots * RUNNER_LOT_SIZE ELSE RUNNER_LOT_SIZE

\* a strategy step that enters on every signal, whatever is held
StrategyEntry_whatever_is_held(b, cfg, row) ==
    LET option_type == IF row.signal = "BUY" THEN "CE" ELSE "PE"
        entry_price == IF row.signal = "BUY" THEN row.call_price ELSE row.put_price
        qty         == EntryQuantity(b, entry_price, row.risk_per_trade)
        symbol      == EntrySymbol(cfg.strike_selection, row.atm_strike, option_type)
    IN  IF row.signal \in {"BUY", "SELL"}
        THEN BacktestPlaceOrder(b, symbol, qty, "BUY", entry_price, 0, 0, "STRATEGY_ENTRY",
                                row.timestamp, 0).b
        ELSE b

\* the strategy step: an entry when the signal is BUY or SELL and nothing is held
StrategyEntry(b, cfg, row) ==
    LET option_type == IF row.signal = "BUY" THEN "CE" ELSE "PE"
        entry_price == IF row.signal = "BUY" THEN row.call_price ELSE row.put_price
        qty         == EntryQuantity(b, entry_price, row.risk_per_trade)
        symbol      == EntrySymbol(cfg.strike_selection, row.atm_strike, option_type)
    IN  IF row.signal \in {"BUY", "SELL"} /\ b.active_positions = << >>
        THEN BacktestPlaceOrder(b, symbol, qty, "BUY", entry_price, 0, 0, "STRATEGY_ENTRY",
                                row.timestamp, 0).b
        ELSE b

\* the equity point of a row (lines 327-341): round(capital + unrealized_pnl, 2)
row_record(run, b1, row) ==
    [run EXCEPT !.b = b1,
                !.equity_curve = Append(@, QInt(QRound(QAdd(b1.capital,
                                                            Unrealized(b1, 1, row))))),
                !.row = row]

\* the strategy step after the global gate left gc
row_strategy(run, gc, row) ==
    row_record(run, IF gc.can_enter THEN StrategyEntry(gc.b, run.cfg, row) ELSE gc.b, row)

\* a global gate that starts from the row's own can_enter
row_global_forgets_position_gate(run, pc, row) ==
    row_strategy(run, GlobalChecks(pc.b, run.cfg, row, row.can_enter), row)

\* the global gate after the position-level checks left pc
row_global(run, pc, row) ==
    row_strategy(run, GlobalChecks(pc.b, run.cfg, row, pc.can_enter), row)

\* an exit-time gate that records the point and closes nothing
row_time_exit_closes_nothing(run, closed, row) ==
    [run EXCEPT !.equity_curve = Append(@, run.b.capital), !.row = row]

\* the exit-time gate (lines 126-153): everything is closed, the point is the capital
row_time_exit(run, closed, row) ==
    [run EXCEPT !.b = closed, !.equity_curve = Append(@, closed.capital), !.row = row]

\* one iteration of the loop over the rows
BacktestRow(run, row) ==
    IF row.past_exit
    THEN row_time_exit(run, CloseAll(run.b, run.b.active_positions, 1, row, "TIME_EXIT",
                                     row.timestamp, 0),
                       row)
    ELSE row_global(run, PositionChecks(run.b, run.cfg, run.b.active_positions, 1, row,
                                        row.can_enter),
                    row)

\* the force exit after the last row, at the last row's prices (no point is added
\* when nothing is held)
force_exit_record(run, closed) ==
    [run EXCEPT !.b = closed, !.equity_curve = Append(@, QInt(QRound(closed.capital))),
                !.done = TRUE]

\* a series end that leaves what is held
BacktestForceExit_leaves_positions(run, now) == [run EXCEPT !.done = TRUE]

\* the orders of the force exit name no timestamp (lines 354-360): the broker stamps
\* them with the clock, now
BacktestForceExit(run, now) ==
    IF run.b.active_positions = << >> THEN [run EXCEPT !.done = TRUE]
    ELSE force_exit_record(run, CloseAll(run.b, run.b.active_positions, 1, run.row,
                                         "FORCE_EXIT", 0, now))

(***************************************************************************)
(* The live server (src/server_v2.py): module-level risk_manager,          *)
(* state_manager and paper_broker, the handlers that use them.             *)
(***************************************************************************)
VARIABLES
    risk_manager,   \* the RiskManager instance of the process
    ledger,         \* [state, file, tmp]: StateManager.state and the two files
    paper_broker,   \* the PaperBroker instance: [slippage_pct]
    today,          \* the current day number (date.today())
    ever_tripped,   \* history: daily_pnl <= max_daily_loss_limit held at some time
                    \* of the current day
    run,            \* the BacktestRunner: [b, cfg, equity_curve, row, done]; for the
                    \* stateless calculators, the last call: [call, args, result];
                    \* for overlapping closes, the frame of each caller; for the
                    \* backtest stream, the worker, the queue and the generator;
                    \* for the market loop, the two flags and the tasks; for the
                    \* risk manager alone, the number of calls of each method
    mode,           \* what drives the process: "live", "paper", "backtest", "monitor",
                    \* "calc", "closing", "stream", "loop", "risk"
    store           \* where a StateManager call stands inside JSONStateStore.save

vars == <<risk_manager, ledger, paper_broker, today, ever_tripped, run, mode, store>>

\* bounds of the model
MaxOrders == 4

\* inputs of the model: prices and quantities the handlers are called with
Symbols == {"NIFTY25000CE", "NIFTY25000PE"}
Prices == {8000, 12000}
Qtys == {500}

TOTAL_CAPITAL == 20000000

World == [rm |-> risk_manager, l |-> ledger, pb |-> paper_broker]

Commit(w) == /\ risk_manager' = w.rm
             /\ ledger' = w.l

\* no backtest is running; no StateManager call is under way
NoRow == [timestamp |-> 0, past_exit |-> FALSE, can_enter |-> FALSE, call_price |-> 0,
          put_price |-> 0, atm_strike |-> 0, signal |-> "NONE", risk_per_trade |-> 0]
NoRun == [b |-> BacktestBrokerInit(0, 0),
          cfg |-> [stop_loss_pct |-> 0, target_profit_pct |-> 0, strike_selection |-> "atm"],
          equity_curve |-> << >>, row |-> NoRow, done |-> FALSE]
NoState == [kind |-> "none"]
NoSave == [pc |-> "idle", calls |-> 0, prev |-> NoState, new |-> NoState, saved |-> NoState,
           recovered |-> "none", loaded |-> FALSE, returned |-> FALSE]

\* the server process right after its module-level construction
LiveInit ==
    /\ risk_manager = RiskManagerInit(TOTAL_CAPITAL)
    /\ ledger = [state |-> TradeStateInit(0), file |-> AbsentFile, tmp |-> AbsentFile]
    /\ paper_broker = [slippage_pct |-> SLIPPAGE_NUM]
    /\ today = 0
    /\ ever_tripped = FALSE

Init ==
    /\ LiveInit
    /\ run = NoRun
    /\ mode = "live"
    /\ store = NoSave

\* place_order_endpoint for a market order it executes (market open, a price
\* quoted for the symbol): PaperBroker.place_order at that price
PlaceOrder(symbol, quantity, side, price) ==
    /\ Len(ledger.state.orders) < MaxOrders
    /\ ExactSlippage(World, price)
    /\ Commit(PaperPlaceOrder(World, symbol, quantity, side, "MARKET", price, 0, 0, 0,
                              today).w)
    /\ UNCHANGED <<paper_broker, today>>

\* close_trade_manual: PaperBroker.close_position at the quoted price; the handler
\* catches what close_position raises
CloseTradeManual(symbol, exit_price) ==
    /\ Len(ledger.state.orders) < MaxOrders
    /\ ExactSlippage(World, exit_price)
    /\ Commit(PaperClosePosition(World, symbol, exit_price, "Manual API Close", today).w)
    /\ UNCHANGED <<paper_broker, today>>

\* one opposing position closed by the market loop (server_v2.py 736-752), from the
\* exit order's result ex on: StateManager.update_pnl and StateManager.close_position
stop_and_reverse_settle(ex, pos, net_pnl, day) ==
    IF ex.res.status = "REJECTED"
    THEN [w |-> ex.w, raised |-> TRUE]               \* KeyError "average_price"
    ELSE [w |-> [ex.w EXCEPT !.l = SM_close_position(SM_update_pnl(ex.w.l, net_pnl, day),
                                                     pos.symbol, day)],
          raised |-> FALSE]

\* net_pnl = gross_pnl - exec_result["costs"]
stop_and_reverse_fill(ex, pos, day) ==
    stop_and_reverse_settle(ex, pos,
        (ex.res.average_price - pos.entry_price) * pos.quantity - ex.res.costs, day)

StopAndReverseClose(w, pos, exit_ltp, day) ==
    stop_and_reverse_fill(
        PaperPlaceOrder(w, pos.symbol, pos.quantity, "SELL", "MARKET", exit_ltp, 0, 0, 0, day),
        pos, day)

\* the loop over list(current_positions.items()), from position i on; c is what the
\* close of the position before left
RECURSIVE StopAndReverse(_, _, _, _, _, _)
StopAndReverseFrom(c, snapshot, i, opposing_type, ltp, day) ==
    IF c.raised THEN c
    ELSE StopAndReverse(c.w, snapshot, i, opposing_type, ltp, day)

StopAndReverse(w, snapshot, i, opposing_type, ltp, day) ==
    IF i > Len(snapshot) THEN [w |-> w, raised |-> FALSE]
    ELSE IF snapshot[i].option_type # opposing_type
         THEN StopAndReverse(w, snapshot, i + 1, opposing_type, ltp, day)
    ELSE StopAndReverseFrom(StopAndReverseClose(w, snapshot[i], ltp[snapshot[i].symbol], day),
                            snapshot, i + 1, opposing_type, ltp, day)

SymbolOfType(option_type) == IF option_type = "CE" THEN "NIFTY25000CE" ELSE "NIFTY25000PE"

\* the entry from the broker's result ex on: the loop's own add_position over the
\* broker's
market_entry_fill(ex, symbol, qty, stop_loss, target, intent_type, day) ==
    IF ex.res.status = "REJECTED" THEN [w |-> ex.w, raised |-> TRUE]
    ELSE [w |-> [ex.w EXCEPT !.l = SM_add_position(ex.w.l, symbol,
                     [symbol |-> symbol, side |-> "BUY", quantity |-> qty,
                      entry_price |-> ex.res.average_price, stop_loss |-> stop_loss,
                      target |-> target, option_type |-> intent_type], day)],
          raised |-> FALSE]

\* the entry once validate_trade_setup has left the risk manager as w1.rm
market_entry_sized(w1, symbol, qty, entry_ltp, stop_loss, target, intent_type, day) ==
    IF qty < LOT_SIZE THEN [w |-> w1, raised |-> FALSE]
    ELSE market_entry_fill(
             PaperPlaceOrder(w1, symbol, qty, "BUY", "MARKET", entry_ltp, 0, 0, 0, day),
             symbol, qty, stop_loss, target, intent_type, day)

market_entry_validated(w1, approved, symbol, entry_ltp, stop_loss, target, intent_type, day) ==
    IF ~approved THEN [w |-> w1, raised |-> FALSE]
    ELSE market_entry_sized(w1, symbol, get_target_size(w1.rm, entry_ltp, stop_loss),
                            entry_ltp, stop_loss, target, intent_type, day)

market_entry_setup(w, symbol, entry_ltp, stop_loss, target, intent_type, day) ==
    market_entry_validated([w EXCEPT !.rm = check_kill_switch(w.rm)],
                           validate_trade_setup(w.rm, entry_ltp, stop_loss, target).approved,
                           symbol, entry_ltp, stop_loss, target, intent_type, day)

\* the entry of the market loop (server_v2.py 764-819): validate, size, buy
MarketLoopEntry(w, intent_type, found, ltp, day) ==
    LET positions == w.l.state.open_positions
        holding   == \E i \in DOMAIN positions : parse_option_type(positions[i].symbol)
                                                     = intent_type
        entry_ltp == ltp[SymbolOfType(intent_type)]
    IN  IF holding \/ ~found THEN [w |-> w, raised |-> FALSE]
        ELSE market_entry_setup(w, SymbolOfType(intent_type), entry_ltp,
                                (entry_ltp * 9) \div 10, (entry_ltp * 12) \div 10,
                                intent_type, day)

market_signal_entry(sr, intent_type, found, ltp, day) ==
    IF sr.raised THEN sr
    ELSE MarketLoopEntry(sr.w, intent_type, found, ltp, day)

\* the signal part of one market_data_loop iteration for one signal
MarketLoopSignal(w, action, found, ltp, day) ==
    market_signal_entry(
        StopAndReverse(w, w.l.state.open_positions, 1, IF action = "BUY" THEN "PE" ELSE "CE",
                       ltp, day),
        IF action = "BUY" THEN "CE" ELSE "PE", found, ltp, day)

(***************************************************************************)
(* PositionMonitor (src/src/broker/position_monitor.py).  ltp[symbol] is   *)
(* what _get_ltp finds in the option chain, 0 when it finds nothing.       *)
(***************************************************************************)
\* a monitor that looks at the target before the stop
monitor_reason_target_first(pos, current_ltp) ==
    IF pos.side = "BUY"
    THEN IF pos.target > 0 /\ current_ltp >= pos.target THEN "Target Hit"
         ELSE IF pos.stop_loss > 0 /\ current_ltp <= pos.stop_loss THEN "Stop Loss Hit"
         ELSE ""
    ELSE IF pos.target > 0 /\ current_ltp <= pos.target THEN "Target Hit"
         ELSE IF pos.stop_loss > 0 /\ current_ltp >= pos.stop_loss THEN "Stop Loss Hit"
         ELSE ""

\* "" (no close), or the reason the position is closed for
monitor_reason(pos, current_ltp) ==
    IF pos.side = "BUY"
    THEN IF pos.stop_loss > 0 /\ current_ltp <= pos.stop_loss THEN "Stop Loss Hit"
         ELSE IF pos.target > 0 /\ current_ltp >= pos.target THEN "Target Hit"
         ELSE ""
    ELSE IF pos.stop_loss > 0 /\ current_ltp >= pos.stop_loss THEN "Stop Loss Hit"
         ELSE IF pos.target > 0 /\ current_ltp <= pos.target THEN "Target Hit"
         ELSE ""

\* a call of close_position whose exception leaves the loop
monitor_try_close_unguarded(closed) ==
    [w |-> closed.w, go_on |-> closed.res.status # "raised"]

\* try: close_position(...) except Exception: logger.error(...) (lines 67-70): the
\* world is as close_position left it, and the loop goes on
monitor_try_close(closed) == [w |-> closed.w, go_on |-> TRUE]

RECURSIVE check_positions(_, _, _, _, _)
check_positions(w, snapshot, i, ltp, day) ==
    IF i > Len(snapshot) THEN w
    ELSE LET pos         == snapshot[i]
             current_ltp == ltp[pos.symbol]
             reason      == monitor_reason(pos, current_ltp)
             tried       == monitor_try_close(PaperClosePosition(w, pos.symbol, current_ltp,
                                                                 reason, day))
         IN  IF (pos.stop_loss = 0 /\ pos.target = 0) \/ current_ltp = 0 \/ reason = ""
             THEN check_positions(w, snapshot, i + 1, ltp, day)
             ELSE IF tried.go_on THEN check_positions(tried.w, snapshot, i + 1, ltp, day)
             ELSE tried.w

\* the monitor at the end of an iteration (server_v2.py 929-930), sg being what the
\* signal part left
market_loop_monitor(sg, ltp, day) ==
    IF sg.raised \/ Len(sg.w.l.state.open_positions) = 0 THEN sg.w
    ELSE check_positions(sg.w, sg.w.l.state.open_positions, 1, ltp, day)

\* one iteration of market_data_loop: the signal (if any), then the monitor; an
\* exception in the signal part ends the iteration
MarketLoop(action, found, ltp) ==
    /\ Len(ledger.state.orders) < MaxOrders
    /\ \A s \in Symbols : ExactSlippage(World, ltp[s])
    /\ Commit(market_loop_monitor(
                  IF action = "NONE" THEN [w |-> World, raised |-> FALSE]
                  ELSE MarketLoopSignal(World, action, found, ltp, today),
                  ltp, today))
    /\ UNCHANGED <<paper_broker, today>>

\* validate_trade_endpoint: the gatekeeper, then the sizing engine
ValidateTrade(entry, sl, target) ==
    /\ risk_manager' = check_kill_switch(risk_manager)
    /\ UNCHANGED <<ledger, paper_broker, today>>

\* total_used_margin of startup_event
RECURSIVE used_margin(_)
used_margin(positions) ==
    IF positions = << >> THEN 0
    ELSE Head(positions).quantity * Head(positions).entry_price + used_margin(Tail(positions))

\* the process starts again (startup_event): the ledger is loaded from the file and a
\* new RiskManager is rehydrated from it
Startup ==
    /\ LET l1  == SM_load(ledger, today)
           rm1 == restore_state(RiskManagerInit(TOTAL_CAPITAL), l1.state.daily_pnl,
                                l1.state.kill_switch_active)
       IN  /\ ledger' = l1
           /\ risk_manager' = [rm1 EXCEPT !.current_capital =
                                              @ - used_margin(l1.state.open_positions)]
    /\ UNCHANGED <<paper_broker, today>>

\* daily_pnl <= limit holds now, or held earlier on the same day
History ==
    ever_tripped' = (\/ KillSwitchResult(risk_manager')
                     \/ (ever_tripped /\ today' = today))

TickPrices == [Symbols -> Prices]

\* what every step of the live process leaves alone, and the history it keeps
LiveFrame == History /\ UNCHANGED <<run, mode, store>>

Next ==
    \/ \E symbol \in Symbols, quantity \in Qtys \cup {0}, side \in {"BUY", "SELL"},
         price \in Prices : PlaceOrder(symbol, quantity, side, price) /\ LiveFrame
    \/ \E symbol \in Symbols, exit_price \in Prices :
         CloseTradeManual(symbol, exit_price) /\ LiveFrame
    \/ \E action \in {"NONE", "BUY", "SELL"}, found \in BOOLEAN, ltp \in TickPrices :
         MarketLoop(action, found, ltp) /\ LiveFrame
    \/ \E entry \in Prices :
         ValidateTrade(entry, (entry * 9) \div 10, (entry * 12) \div 10) /\ LiveFrame
    \/ Startup /\ LiveFrame

Spec == Init /\ [][Next]_vars

(***************************************************************************)
(* Claims checked under Spec (one trading day of the live server).         *)
(***************************************************************************)
\* the setups the claims quantify over: entry, stop 10% below, target 20% above
Setups == {<<e, (e * 9) \div 10, (e * 12) \div 10>> : e \in Prices}

\* C1: once RiskManager.daily_pnl has been at or below max_daily_loss_limit during
\* the day, get_target_size returns 0 on every later call (for every setup)
C1_KillSwitchMonotone ==
    ever_tripped => \A s \in Setups : get_target_size(risk_manager, s[1], s[2]) = 0

\* C2: while the kill switch is active, validate_trade_setup rejects every setup,
\* also after profits have lifted daily_pnl back above the limit
C2_ActiveSwitchRejects ==
    risk_manager.kill_switch_active =>
        \A s \in Setups : ~validate_trade_setup(risk_manager, s[1], s[2], s[3]).approved

\* C3: the realized P&L of the ledger and of the risk manager are equal after every
\* position-closing event
C3_PnlInSync == ledger.state.daily_pnl = risk_manager.daily_pnl

ClosedTradePnl(trades) == SumSeq([i \in DOMAIN trades |-> trades[i].pnl])

\* C4: the ledger's daily_pnl is the sum of the P&L of its ClosedTrade records
C4_LedgerInvariant == ledger.state.daily_pnl = ClosedTradePnl(ledger.state.closed_trades)

(***************************************************************************)
(* A backtest: BacktestRunner.run over the rows of a data frame.           *)
(***************************************************************************)
MaxRows == 4

\* initial_capital of BacktestRunner.__init__
INITIAL_CAPITAL == 10000000

\* inputs of the model: the slippage and the gates of the run, the prices of a row
BtSlippages == {0, 50}
StopLossPcts == {0, 10, 52}
TargetPcts == {0, 20}
BtPrices == {40200, 80400}

\* what datetime.now() may answer; the rows of the series are stamped 1, 2, ...
Clocks == {101, 102}

\* the rows a series may hold at the place timestamp
RowsAt(timestamp) ==
    {[timestamp |-> timestamp, past_exit |-> g[1], can_enter |-> g[2], call_price |-> c,
      put_price |-> p, atm_strike |-> 25000, signal |-> sig, risk_per_trade |-> 1] :
        g \in {<<FALSE, FALSE>>, <<FALSE, TRUE>>, <<TRUE, TRUE>>},
        c \in BtPrices, p \in BtPrices, sig \in {"NONE", "BUY", "SELL"}}

BtInit ==
    /\ LiveInit
    /\ mode = "backtest"
    /\ store = NoSave
    /\ \E slippage_pct \in BtSlippages, sl \in StopLossPcts, tp \in TargetPcts :
         run = [b |-> BacktestBrokerInit(INITIAL_CAPITAL, slippage_pct),
                cfg |-> [stop_loss_pct |-> sl, target_profit_pct |-> tp,
                         strike_selection |-> "atm"],
                equity_curve |-> << >>, row |-> NoRow, done |-> FALSE]

BtFrame == UNCHANGED <<risk_manager, ledger, paper_broker, today, ever_tripped, mode, store>>

\* the loop body on the next row
BacktestStep(row) ==
    /\ ~run.done
    /\ Len(run.equity_curve) < MaxRows
    /\ \A side \in {"BUY", "SELL"} :
         BtExactSlippage(run.b, side, row.call_price)
         /\ BtExactSlippage(run.b, side, row.put_price)
    /\ run' = BacktestRow(run, row)
    /\ BtFrame

\* the rows are used up: the force exit
BacktestFinish(now) ==
    /\ ~run.done
    /\ Len(run.equity_curve) >= 1
    /\ run' = BacktestForceExit(run, now)
    /\ BtFrame

BtNext ==
    \/ \E row \in RowsAt(Len(run.equity_curve) + 1) : BacktestStep(row)
    \/ \E now \in Clocks : BacktestFinish(now)

SpecBT == BtInit /\ [][BtNext]_vars

\* the money the trades moved: what the SELLs brought in less what the BUYs paid,
\* less the costs of both
RECURSIVE TradeCash(_)
TradeCash(trades) ==
    IF trades = << >> THEN 0
    ELSE LET t == Head(trades)
         IN  (IF t.side = "SELL" THEN t.price * t.quantity ELSE 0 - t.price * t.quantity)
             - t.costs + TradeCash(Tail(trades))

\* C5: the last recorded equity is the settled capital plus the unrealized P&L of the
\* open positions, and once every opened position is fully closed the capital is the
\* initial capital plus the gross P&L of the trades less their entry and exit costs
C5_BacktestCapital ==
    /\ (run.equity_curve # << >> /\ ~run.done) =>
           QRound(run.equity_curve[Len(run.equity_curve)])
               = QRound(QAdd(run.b.capital, Unrealized(run.b, 1, run.row)))
    /\ (run.b.trades # << >> /\ run.b.active_positions = << >>) =>
           run.b.capital = QInt(run.b.initial_capital + TradeCash(run.b.trades))

\* the step ran the loop body on the row run'.row; the step is the series end
C18_RowStep == mode = "backtest" /\ ~run.done /\ ~run'.done /\ run' # run
C20_FinishStep == mode = "backtest" /\ ~run.done /\ run'.done

\* the trades the step added are one SELL for each position held before it, for its
\* quantity, at the price of the row for its symbol (less the broker's slippage),
\* with the tag
ExitTrades(before, after, row, tag) ==
    /\ Len(after.trades) = Len(before.trades) + Len(before.active_positions)
    /\ SubSeq(after.trades, 1, Len(before.trades)) = before.trades
    /\ \A i \in DOMAIN before.active_positions :
          /\ after.trades[Len(before.trades) + i].symbol = before.active_positions[i].symbol
          /\ after.trades[Len(before.trades) + i].side = "SELL"
          /\ after.trades[Len(before.trades) + i].quantity
                = before.active_positions[i].quantity
          /\ after.trades[Len(before.trades) + i].strategy = tag
          /\ after.trades[Len(before.trades) + i].price
                = (RowPrice(row, before.active_positions[i].symbol) * BpScale)
                      \div (BpScale + before.slippage_pct)

C18_ExitRow ==
    (C18_RowStep /\ run'.row.past_exit) =>
        /\ ExitTrades(run.b, run'.b, run'.row, "TIME_EXIT")
        /\ run'.b.active_positions = << >>
        /\ Len(run'.equity_curve) = Len(run.equity_curve) + 1
        /\ SubSeq(run'.equity_curve, 1, Len(run.equity_curve)) = run.equity_curve

\* C18: on a backtest row at or after the exit boundary every open position is
\* closed at the row's price with the tag TIME_EXIT, exactly one equity point is
\* recorded, no other gate and no entry adds a trade, and no position is open
\* after the row
C18_ExitTimeGate == [][C18_ExitRow]_vars

\* an exit row has closed the position of the run
C18_Witness ==
    /\ mode = "backtest"
    /\ ~run.done
    /\ run.row.past_exit
    /\ run.b.active_positions = << >>
    /\ Len(run.b.trades) >= 2
    /\ run.b.trades[Len(run.b.trades)].strategy = "TIME_EXIT"
    /\ Len(run.equity_curve) >= 2

\* the step added an entry order to the trades
C19_Entered ==
    \E k \in DOMAIN run'.b.trades :
        k > Len(run.b.trades) /\ run'.b.trades[k].strategy = "STRATEGY_ENTRY"

C19_EntryRow ==
    (C18_RowStep /\ C19_Entered) =>
        /\ run.b.active_positions = << >>
        /\ Len(run'.b.trades) = Len(run.b.trades) + 1
        /\ run'.b.trades[Len(run'.b.trades)].side = "BUY"
        /\ run'.row.can_enter
        /\ ~run'.row.past_exit

C19_AtMostOne == mode = "backtest" => Len(run.b.active_positions) <= 1

\* C19: at every point of a backtest run at most one position is open, and an entry
\* order is placed only in a row where no position is open, no gate closed a
\* position, and the time is at or after the entry boundary and before the exit
\* boundary
C19_SinglePosition == []C19_AtMostOne /\ [][C19_EntryRow]_vars

\* the run holds the one position its last row entered, after an earlier round trip
C19_Witness ==
    /\ mode = "backtest"
    /\ ~run.done
    /\ Len(run.b.active_positions) = 1
    /\ Len(run.b.trades) = 3
    /\ run.b.trades[3].strategy = "STRATEGY_ENTRY"
    /\ run.row.can_enter
    /\ ~run.row.past_exit
    /\ run.row.signal \in {"BUY", "SELL"}

\* at the series end the leftovers are closed at the last row's prices
C20_Leftovers ==
    /\ ExitTrades(run.b, run'.b, run.row, "FORCE_EXIT")
    /\ run'.b.active_positions = << >>

\* the series end appends one point, the settled capital
C20_PointAppended ==
    /\ Len(run'.equity_curve) = Len(run.equity_curve) + 1
    /\ SubSeq(run'.equity_curve, 1, Len(run.equity_curve)) = run.equity_curve
    /\ run'.equity_curve[Len(run'.equity_curve)] = run'.b.capital

\* the series end appends the settled capital, rounded to two decimals, when there
\* were leftovers, and nothing otherwise: the last row's point is then the capital
\* already, to two decimals
C20_PointIfLeftovers ==
    IF run.b.active_positions # << >>
    THEN /\ Len(run'.equity_curve) = Len(run.equity_curve) + 1
         /\ SubSeq(run'.equity_curve, 1, Len(run.equity_curve)) = run.equity_curve
         /\ run'.equity_curve[Len(run'.equity_curve)] = QInt(QRound(run'.b.capital))
    ELSE /\ run'.equity_curve = run.equity_curve
         /\ QRound(run'.equity_curve[Len(run'.equity_curve)]) = QRound(run'.b.capital)

\* C20 as stated: when a backtest run finishes no position remains open (leftovers
\* are closed at the last row's price with the tag FORCE_EXIT) and a final equity
\* point equal to the settled capital is appended to the curve
C20_SeriesEndAppends == [][C20_FinishStep => (C20_Leftovers /\ C20_PointAppended)]_vars

\* C20: when a backtest run finishes no position remains open (leftovers are closed
\* at the last row's price with the tag FORCE_EXIT); when there were leftovers a
\* final equity point, the settled capital rounded to two decimals, is appended to
\* the curve, and when there were none the curve is left as it is, its last point
\* being the settled capital to two decimals
C20_SeriesEnd == [][C20_FinishStep => (C20_Leftovers /\ C20_PointIfLeftovers)]_vars

\* the run has finished by closing a leftover position
C20_Witness ==
    /\ mode = "backtest"
    /\ run.done
    /\ run.b.active_positions = << >>
    /\ run.b.trades # << >>
    /\ run.b.trades[Len(run.b.trades)].strategy = "FORCE_EXIT"
    /\ run.equity_curve[Len(run.equity_curve)] = QInt(QRound(run.b.capital))

\* C21: two runs of a fresh runner on the same strategy, price series and
\* configuration give the same equity curve and the same trade log (up to the last
\* row both are functions of the rows, so the runs can part only where the clock is
\* read), and every trade carries the timestamp of its row, never the clock's
C21_Deterministic ==
    mode = "backtest" =>
        /\ \A k \in DOMAIN run.b.trades :
              run.b.trades[k].timestamp \in 1..Len(run.equity_curve)
        /\ (~run.done /\ run.equity_curve # << >>) =>
              \A now1 \in Clocks, now2 \in Clocks :
                  /\ BacktestForceExit(run, now1).equity_curve
                        = BacktestForceExit(run, now2).equity_curve
                  /\ BacktestForceExit(run, now1).b.trades
                        = BacktestForceExit(run, now2).b.trades

\* the SELL orders the step added to the trades, and those of them for symbol
C27_Sells ==
    {k \in DOMAIN run'.b.trades : k > Len(run.b.trades) /\ run'.b.trades[k].side = "SELL"}
C27_SellsOf(symbol) == {k \in C27_Sells : run'.b.trades[k].symbol = symbol}

\* the tag the per-position gate closes pos with on row, "" when it leaves it
C27_PositionTag(cfg, pos, row) ==
    IF PositionStopHit(cfg, pos, RowPrice(row, pos.symbol)) THEN "POSITION_SL"
    ELSE IF PositionTargetHit(cfg, pos, RowPrice(row, pos.symbol)) THEN "POSITION_TP"
    ELSE ""

C27_GateRow ==
    (C18_RowStep /\ ~run'.row.past_exit) =>
        /\ \A i \in DOMAIN run.b.active_positions :
              LET pos == run.b.active_positions[i]
                  tag == C27_PositionTag(run.cfg, pos, run'.row)
              IN  /\ Cardinality(C27_SellsOf(pos.symbol)) <= 1
                  /\ tag # "" =>
                        /\ C27_SellsOf(pos.symbol) # {}
                        /\ \A k \in C27_SellsOf(pos.symbol) : run'.b.trades[k].strategy = tag
                  /\ tag = "" =>
                        \A k \in C27_SellsOf(pos.symbol) :
                            run'.b.trades[k].strategy \in {"GLOBAL_SL", "GLOBAL_TP"}
        /\ \A k \in C27_Sells :
              \E i \in DOMAIN run.b.active_positions :
                  run.b.active_positions[i].symbol = run'.b.trades[k].symbol
        /\ C27_Sells # {} => ~C19_Entered

\* C27: within one backtest row before the exit boundary a position closed by the
\* per-position gate is not closed again by the portfolio gate, a row where the
\* per-position gate and the portfolio gate both hold is resolved by the
\* per-position gate (the closing trade carries its tag), and no entry is made in a
\* row where any gate closed a position
C27_GateOrdering == [][C27_GateRow]_vars

\* the broker as it stood before the second trade of a run whose first trade was the
\* entry at the reference price price
C27_AfterEntry(price) ==
    BacktestPlaceOrder(BacktestBrokerInit(run.b.initial_capital, run.b.slippage_pct),
                       run.b.trades[1].symbol, run.b.trades[1].quantity, "BUY", price, 0, 0,
                       "STRATEGY_ENTRY", 1, 0).b

\* a row closed the position of the run by the per-position stop although the
\* portfolio stop held for it on the same row, and the row's signal was not entered
C27_Witness ==
    /\ mode = "backtest"
    /\ ~run.done
    /\ ~run.row.past_exit
    /\ run.row.can_enter
    /\ run.row.signal \in {"BUY", "SELL"}
    /\ Len(run.b.trades) = 2
    /\ run.b.trades[1].strategy = "STRATEGY_ENTRY"
    /\ run.b.trades[2].strategy = "POSITION_SL"
    /\ run.b.trades[2].timestamp = run.row.timestamp
    /\ run.b.active_positions = << >>
    /\ \E price \in BtPrices :
          /\ C27_AfterEntry(price).trades = SubSeq(run.b.trades, 1, 1)
          /\ Len(GlobalChecks(C27_AfterEntry(price), run.cfg, run.row, TRUE).b.trades) = 2
          /\ GlobalChecks(C27_AfterEntry(price), run.cfg, run.row,
                          TRUE).b.trades[2].strategy = "GLOBAL_SL"

\* price >= entry * (1 + pct%) and price <= entry * (1 - pct%), entry a fraction
C28_AtOrAbove(price, entry, pct) == price * entry.d * 100 >= entry.n * (100 + pct)
C28_AtOrBelow(price, entry, pct) == price * entry.d * 100 <= entry.n * (100 - pct)

\* the step closed pos on its row: one SELL of its quantity was added, stamped with
\* the row, at the row's price for its symbol (less the broker's slippage), and the
\* position is gone
C28_ClosedInRow(pos) ==
    /\ ~HasPosition(run'.b.active_positions, pos.symbol)
    /\ Cardinality(C27_SellsOf(pos.symbol)) = 1
    /\ \A k \in C27_SellsOf(pos.symbol) :
          /\ run'.b.trades[k].quantity = pos.quantity
          /\ run'.b.trades[k].timestamp = run'.row.timestamp
          /\ run'.b.trades[k].price
                = (RowPrice(run'.row, pos.symbol) * BpScale) \div (BpScale + run.b.slippage_pct)

\* the tag of the SELL the step added for pos
C28_TagIs(pos, tag) == \A k \in C27_SellsOf(pos.symbol) : run'.b.trades[k].strategy = tag

\* C28 as stated: whatever the two percentages are, a position whose row price is at
\* or above entry * (1 + target%) or at or below entry * (1 - stop%) is closed in
\* that row
C28_BreachRow ==
    (C18_RowStep /\ ~run'.row.past_exit) =>
        \A i \in DOMAIN run.b.active_positions :
            LET pos   == run.b.active_positions[i]
                price == RowPrice(run'.row, pos.symbol)
            IN  (\/ C28_AtOrAbove(price, pos.entry_price, run.cfg.target_profit_pct)
                 \/ C28_AtOrBelow(price, pos.entry_price, run.cfg.stop_loss_pct))
                => C28_ClosedInRow(pos)

C28_ClosedOnBreach == [][C28_BreachRow]_vars

\* the run of the example: prices 100.00, 130.00, 80.00, a BUY signal on the first
\* row only, the entry window open on every row, stop 10%, target 20%
C28_ExampleRow(timestamp, price, signal) ==
    [timestamp |-> timestamp, past_exit |-> FALSE, can_enter |-> TRUE, call_price |-> price,
     put_price |-> price, atm_strike |-> 25000, signal |-> signal, risk_per_trade |-> 1]
C28_ExampleRun(slippage_pct, rows) ==
    BacktestRow(
        BacktestRow(
            BacktestRow([b |-> BacktestBrokerInit(INITIAL_CAPITAL, slippage_pct),
                         cfg |-> [stop_loss_pct |-> 10, target_profit_pct |-> 20,
                                  strike_selection |-> "atm"],
                         equity_curve |-> << >>, row |-> NoRow, done |-> FALSE],
                        C28_ExampleRow(1, 10000, "BUY")),
            IF rows >= 2 THEN C28_ExampleRow(2, 13000, "NONE") ELSE NoRow),
        IF rows >= 3 THEN C28_ExampleRow(3, 8000, "NONE") ELSE NoRow)
C28_Example ==
    \A slippage_pct \in BtSlippages :
        LET trades == C28_ExampleRun(slippage_pct, 3).b.trades
        IN  /\ Len(trades) = 2
            /\ trades[1].side = "BUY" /\ trades[1].timestamp = 1
            /\ trades[2].side = "SELL" /\ trades[2].timestamp = 2
            /\ trades[2].strategy = "POSITION_TP"
            /\ trades[2].quantity = trades[1].quantity
            /\ C28_ExampleRun(slippage_pct, 3).b.active_positions = << >>

C28_GateRow ==
    (C18_RowStep /\ ~run'.row.past_exit) =>
        \A i \in DOMAIN run.b.active_positions :
            LET pos   == run.b.active_positions[i]
                price == RowPrice(run'.row, pos.symbol)
                stop  == /\ run.cfg.stop_loss_pct > 0
                         /\ C28_AtOrBelow(price, pos.entry_price, run.cfg.stop_loss_pct)
                target == /\ run.cfg.target_profit_pct > 0
                          /\ C28_AtOrAbove(price, pos.entry_price, run.cfg.target_profit_pct)
            IN  /\ stop => C28_ClosedInRow(pos) /\ C28_TagIs(pos, "POSITION_SL")
                /\ (target /\ ~stop) => C28_ClosedInRow(pos) /\ C28_TagIs(pos, "POSITION_TP")
                /\ (~stop /\ ~target) =>
                      \A k \in C27_SellsOf(pos.symbol) :
                          run'.b.trades[k].strategy \notin {"POSITION_SL", "POSITION_TP"}

\* C28: in a backtest row before the exit boundary an open position whose row price
\* is at or above entry * (1 + target%) with target% > 0, or at or below
\* entry * (1 - stop%) with stop% > 0, is closed in that same row at that row's
\* price by the per-position gate, which closes no other position (a percentage of 0
\* switches its test off); with prices [100, 130, 80], a BUY signal only at row 1,
\* stop 10% and target 20%, the position opens at row 1, is closed at row 2, and no
\* trade happens at row 3
C28_PerPositionGate ==
    [][(run.equity_curve = << >> => C28_Example) /\ C28_GateRow]_vars

\* a row closed the position of the run on its target
C28_Witness ==
    /\ mode = "backtest"
    /\ ~run.done
    /\ ~run.row.past_exit
    /\ run.cfg.target_profit_pct > 0
    /\ run.b.active_positions = << >>
    /\ Len(run.b.trades) >= 2
    /\ run.b.trades[Len(run.b.trades)].strategy = "POSITION_TP"
    /\ run.b.trades[Len(run.b.trades)].timestamp = run.row.timestamp
    /\ run.b.trades[Len(run.b.trades) - 1].side = "BUY"
    /\ C28_AtOrAbove(RowPrice(run.row, run.b.trades[Len(run.b.trades)].symbol),
                     QInt(run.b.trades[Len(run.b.trades) - 1].price),
                     run.cfg.target_profit_pct)

(***************************************************************************)
(* One runner, run more than once: BacktestRunner.__init__ builds the      *)
(* broker, and every call of run works on self.broker as it finds it, with *)
(* an equity curve of its own.                                             *)
(***************************************************************************)
MaxRerunRows == 2
MaxRerunTrades == 2

\* the loop body on the next row of the current call
RerunStep(row) ==
    /\ ~run.done
    /\ Len(run.equity_curve) < MaxRerunRows
    /\ \A side \in {"BUY", "SELL"} :
         BtExactSlippage(run.b, side, row.call_price)
         /\ BtExactSlippage(run.b, side, row.put_price)
    /\ run' = BacktestRow(run, row)
    /\ BtFrame

\* the rows of the current call are used up
RerunFinish(now) ==
    /\ ~run.done
    /\ Len(run.equity_curve) >= 1
    /\ run' = BacktestForceExit(run, now)
    /\ BtFrame

\* run(...) is called again on the runner, with the configuration of the call before
\* (lines 23-118: equity_curve = [], nothing of self.broker is assigned)
run_again(r) == [r EXCEPT !.equity_curve = << >>, !.row = NoRow, !.done = FALSE]

RerunAgain ==
    /\ run.done
    /\ Len(run.b.trades) <= MaxRerunTrades
    /\ run' = run_again(run)
    /\ BtFrame

RerunNext ==
    \/ \E row \in RowsAt(Len(run.equity_curve) + 1) : RerunStep(row)
    \/ \E now \in Clocks : RerunFinish(now)
    \/ RerunAgain

SpecRerun == BtInit /\ [][RerunNext]_vars

\* C30: every call of BacktestRunner.run starts from the initial capital with an
\* empty position map, an empty trade log and zero brokerage and tax totals (so that
\* a second run on the same runner reports what the first reported)
C30_RunScoped ==
    (mode = "backtest" /\ ~run.done /\ run.equity_curve = << >>) =>
        /\ run.b.capital = QInt(run.b.initial_capital)
        /\ run.b.active_positions = << >>
        /\ run.b.trades = << >>
        /\ run.b.total_brokerage = FxInt(0)
        /\ run.b.total_taxes = FxInt(0)

\* what does hold at the start of every call: nothing is held (the call before closed
\* everything at its end)
C30_StartsFlat ==
    (mode = "backtest" /\ ~run.done /\ run.equity_curve = << >>) =>
        run.b.active_positions = << >>

(***************************************************************************)
(* The two brokers under direct calls: a process drives either a           *)
(* PaperBroker (place_order, close_position) or a BacktestBroker           *)
(* (place_order), with the slippage it was constructed with.               *)
(***************************************************************************)
MaxBrokerOrders == 3

BrokerQtys == {50, 100}
BrokerPrices == {10000, 12000}
\* 12060 is what a SELL at slippage 0.5% fills at 12000 from
BtBrokerPrices == BrokerPrices \cup {12060}
BtSymbols == {"NIFTY 25000 CE", "NIFTY 25000 PE"}

BrokersInit ==
    /\ risk_manager = RiskManagerInit(TOTAL_CAPITAL)
    /\ ledger = [state |-> TradeStateInit(0), file |-> AbsentFile, tmp |-> AbsentFile]
    /\ today = 0
    /\ ever_tripped = FALSE
    /\ store = NoSave
    /\ \/ /\ mode = "paper"
          /\ \E slippage_pct \in {0, SLIPPAGE_NUM} :
               paper_broker = [slippage_pct |-> slippage_pct]
          /\ run = NoRun
       \/ /\ mode = "backtest"
          /\ paper_broker = [slippage_pct |-> SLIPPAGE_NUM]
          /\ \E slippage_pct \in BtSlippages :
               run = [NoRun EXCEPT !.b = BacktestBrokerInit(INITIAL_CAPITAL, slippage_pct)]

PaperOrder(symbol, quantity, side, price) ==
    /\ mode = "paper"
    /\ Len(ledger.state.orders) < MaxBrokerOrders
    /\ PlaceOrder(symbol, quantity, side, price)
    /\ LiveFrame

PaperClose(symbol, exit_price) ==
    /\ mode = "paper"
    /\ Len(ledger.state.orders) < MaxBrokerOrders
    /\ CloseTradeManual(symbol, exit_price)
    /\ LiveFrame

BacktestOrder(symbol, quantity, side, price, now) ==
    /\ mode = "backtest"
    /\ Len(run.b.trades) < MaxBrokerOrders
    /\ BtExactSlippage(run.b, side, price)
    /\ run' = [run EXCEPT !.b = BacktestPlaceOrder(run.b, symbol, quantity, side, price, 0, 0,
                                                   "BACKTEST", 0, now).b]
    /\ BtFrame

\* the order types a caller may name ("FOK" is none the broker knows) and the
\* price and trigger price that go with them
TypedOrderTypes == {"LIMIT", "SL-M", "FOK"}
TypedPrices == {<<10000, 0>>, <<0, 12000>>}

\* PaperBroker.place_order with an order type other than MARKET
PaperTypedOrder(symbol, quantity, side, order_type, price, trigger_price) ==
    /\ mode = "paper"
    /\ Len(ledger.state.orders) < MaxBrokerOrders
    /\ Commit(PaperPlaceOrder(World, symbol, quantity, side, order_type, price, trigger_price,
                              0, 0, today).w)
    /\ UNCHANGED <<paper_broker, today>>
    /\ LiveFrame

\* BacktestBroker.place_order with an order type other than MARKET
BacktestTypedOrder(symbol, quantity, side, order_type, price, trigger_price, now) ==
    /\ mode = "backtest"
    /\ Len(run.b.trades) < MaxBrokerOrders
    /\ BtExactSlippage(run.b, side, price)
    /\ run' = [run EXCEPT !.b = BacktestPlaceOrderTyped(run.b, symbol, quantity, side,
                                     order_type, price, trigger_price, "BACKTEST", now).b]
    /\ BtFrame

BrokersNext ==
    \/ \E symbol \in Symbols, quantity \in BrokerQtys, side \in {"BUY", "SELL"},
         price \in BrokerPrices : PaperOrder(symbol, quantity, side, price)
    \/ \E symbol \in Symbols, exit_price \in BrokerPrices \cup {0} :
         PaperClose(symbol, exit_price)
    \/ \E symbol \in BtSymbols, quantity \in BrokerQtys, side \in {"BUY", "SELL"},
         price \in BtBrokerPrices, now \in {101} :
         BacktestOrder(symbol, quantity, side, price, now)
    \/ \E symbol \in {"NIFTY25000CE"}, quantity \in {0, 50}, side \in {"BUY", "SELL"},
         order_type \in TypedOrderTypes, pt \in TypedPrices :
         PaperTypedOrder(symbol, quantity, side, order_type, pt[1], pt[2])
    \/ \E symbol \in {"NIFTY 25000 CE"}, side \in {"BUY", "SELL"},
         order_type \in {"LIMIT", "SL-M"}, pt \in TypedPrices, now \in {101} :
         BacktestTypedOrder(symbol, 50, side, order_type, pt[1], pt[2], now)

SpecBrokers == BrokersInit /\ [][BrokersNext]_vars

\* the step appended exactly one record to the log
Appended(old, new) == Len(new) = Len(old) + 1 /\ SubSeq(new, 1, Len(old)) = old

\* gross P&L by the original side less the cost of both legs at their own prices
NetOfBothLegs(entry_side, entry_price, exit_price, qty) ==
    (IF entry_side = "BUY" THEN (exit_price - entry_price) * qty
     ELSE (entry_price - exit_price) * qty)
    - calculate_transaction_cost(entry_price, qty, entry_side)
    - calculate_transaction_cost(exit_price, qty, IF entry_side = "BUY" THEN "SELL" ELSE "BUY")

\* a PaperBroker close: the ClosedTrade it appends
C6_PaperClose ==
    Appended(ledger.state.closed_trades, ledger'.state.closed_trades) =>
        LET t == ledger'.state.closed_trades[Len(ledger'.state.closed_trades)]
        IN  t.pnl = NetOfBothLegs(t.action, t.entryPrice, t.exitPrice, t.quantity)

\* a BacktestBroker close: the SELL trade it appends for a held symbol (the entry
\* price a whole number of paise)
C6_BacktestClose ==
    (/\ Appended(run.b.trades, run'.b.trades)
     /\ run'.b.trades[Len(run'.b.trades)].side = "SELL"
     /\ HasPosition(run.b.active_positions, run'.b.trades[Len(run'.b.trades)].symbol)) =>
        LET t   == run'.b.trades[Len(run'.b.trades)]
            pos == GetPosition(run.b.active_positions, t.symbol)
        IN  pos.entry_price.d = 1 =>
                t.pnl = QInt(NetOfBothLegs("BUY", pos.entry_price.n, t.price, t.quantity))

\* C6: on every close, in both brokers, the net P&L recorded for the trade is the
\* gross P&L by the original side minus the entry-leg cost at the entry price and
\* the exit-leg cost at the exit price
C6_NetPnlBothLegs == [][C6_PaperClose /\ C6_BacktestClose]_vars

\* the step is a BUY fill logged by PaperBroker for a symbol it already held
PaperAverageStep ==
    /\ Appended(ledger.state.orders, ledger'.state.orders)
    /\ ledger'.state.orders[Len(ledger'.state.orders)].side = "BUY"
    /\ HasPosition(ledger.state.open_positions,
                   ledger'.state.orders[Len(ledger'.state.orders)].symbol)

\* the step is a BUY fill logged by BacktestBroker for a symbol it already held
BacktestAverageStep ==
    /\ Appended(run.b.trades, run'.b.trades)
    /\ run'.b.trades[Len(run'.b.trades)].side = "BUY"
    /\ HasPosition(run.b.active_positions, run'.b.trades[Len(run'.b.trades)].symbol)

\* BacktestBroker: quantity Q + q and entry price (E*Q + e*q) / (Q + q), unrounded
C7_BacktestAverage ==
    BacktestAverageStep =>
        LET t   == run'.b.trades[Len(run'.b.trades)]
            old == GetPosition(run.b.active_positions, t.symbol)
            new == GetPosition(run'.b.active_positions, t.symbol)
        IN  /\ HasPosition(run'.b.active_positions, t.symbol)
            /\ new.quantity = old.quantity + t.quantity
            /\ new.entry_price.n * old.entry_price.d * new.quantity
                   = new.entry_price.d * (old.entry_price.n * old.quantity
                                          + t.price * t.quantity * old.entry_price.d)

\* PaperBroker, as the claim has it: entry price (E*Q + e*q) / (Q + q) exactly
C7_PaperAverageExact ==
    PaperAverageStep =>
        LET o   == ledger'.state.orders[Len(ledger'.state.orders)]
            old == GetPosition(ledger.state.open_positions, o.symbol)
            new == GetPosition(ledger'.state.open_positions, o.symbol)
        IN  /\ HasPosition(ledger'.state.open_positions, o.symbol)
            /\ new.quantity = old.quantity + o.quantity
            /\ new.entry_price * new.quantity
                   = old.entry_price * old.quantity + o.price * o.quantity

\* PaperBroker, as the code has it: that average to the nearest paise
C7_PaperAverageRounded ==
    PaperAverageStep =>
        LET o   == ledger'.state.orders[Len(ledger'.state.orders)]
            old == GetPosition(ledger.state.open_positions, o.symbol)
            new == GetPosition(ledger'.state.open_positions, o.symbol)
        IN  /\ HasPosition(ledger'.state.open_positions, o.symbol)
            /\ new.quantity = old.quantity + o.quantity
            /\ 2 * Abs(new.entry_price * new.quantity
                       - (old.entry_price * old.quantity + o.price * o.quantity))
                   <= new.quantity

\* 50 @ 100.00 then 50 @ 120.00 with zero slippage: 100 @ 110.00, in either broker
C7_Example ==
    /\ (/\ paper_broker.slippage_pct = 0
        /\ PaperAverageStep
        /\ Len(ledger.state.orders) = 1
        /\ ledger.state.orders[1].quantity = 50 /\ ledger.state.orders[1].price = 10000
        /\ ledger'.state.orders[2].quantity = 50 /\ ledger'.state.orders[2].price = 12000) =>
           /\ ledger'.state.open_positions[1].quantity = 100
           /\ ledger'.state.open_positions[1].entry_price = 11000
    /\ (/\ run.b.slippage_pct = 0
        /\ BacktestAverageStep
        /\ Len(run.b.trades) = 1
        /\ run.b.trades[1].quantity = 50 /\ run.b.trades[1].price = 10000
        /\ run'.b.trades[2].quantity = 50 /\ run'.b.trades[2].price = 12000) =>
           /\ run'.b.active_positions[1].quantity = 100
           /\ run'.b.active_positions[1].entry_price = QInt(11000)

\* C7 as stated: after a BUY fill of q at e on an open position (Q, E) the position
\* has quantity Q + q and entry price exactly (E*Q + e*q) / (Q + q), in both brokers,
\* and 50 @ 100 then 50 @ 120 gives 100 @ 110.00
C7_WeightedAverageExact ==
    [][C7_PaperAverageExact /\ C7_BacktestAverage /\ C7_Example]_vars

\* C7 amended: the quantity is Q + q in both brokers; the entry price is
\* (E*Q + e*q) / (Q + q) in BacktestBroker and that value rounded to two decimals in
\* PaperBroker; 50 @ 100 then 50 @ 120 gives 100 @ 110.00 in both
C7_WeightedAverage ==
    [][C7_PaperAverageRounded /\ C7_BacktestAverage /\ C7_Example]_vars

\* PaperBroker has averaged 100 @ 100.00 and 50 @ 120.00 to 150 @ 106.67
C7_Witness ==
    /\ mode = "paper"
    /\ paper_broker.slippage_pct = 0
    /\ Len(ledger.state.orders) = 2
    /\ ledger.state.orders[1].quantity = 100 /\ ledger.state.orders[1].price = 10000
    /\ ledger.state.orders[2].quantity = 50 /\ ledger.state.orders[2].price = 12000
    /\ Len(ledger.state.open_positions) = 1
    /\ ledger.state.open_positions[1].quantity = 150
    /\ ledger.state.open_positions[1].entry_price = 10667

(***************************************************************************)
(* PaperBroker.place_order and close_position at the broker boundary: the  *)
(* calls a state is tested with.  An order call is                         *)
(* <<quantity, side, order_type, price, trigger_price>>.                   *)
(***************************************************************************)
OrderSides == {"BUY", "SELL", "HOLD"}
AllOrderTypes == OrderTypes \cup {"FOK"}
OrderCalls ==
    {<<q, s, "MARKET", 10000, 0>> : q \in {0, 50, 4000}, s \in OrderSides}
    \cup {<<50, s, t, pt[1], pt[2]>> : s \in {"BUY", "SELL"}, t \in AllOrderTypes,
                                       pt \in {<<0, 0>>, <<10000, 0>>, <<0, 12000>>}}

\* the result of the order call c for NIFTY25000CE in the current state
PlaceCall(c) ==
    PaperPlaceOrder(World, "NIFTY25000CE", c[1], c[2], c[3], c[4], c[5], 0, 0, today)

\* no order call, accepted or rejected, changes the capital or either daily P&L
C11_PlacementFrame ==
    mode = "paper" =>
        \A c \in OrderCalls :
            LET placed == PlaceCall(c)
            IN  /\ placed.w.rm.current_capital = risk_manager.current_capital
                /\ placed.w.rm.daily_pnl = risk_manager.daily_pnl
                /\ placed.w.l.state.daily_pnl = ledger.state.daily_pnl

\* a step of the broker that changes the capital is a close: a position leaves the
\* ledger, and the capital and both daily P&L move by the same amount (update_pnl)
C11_CapitalStep ==
    (mode = "paper" /\ risk_manager'.current_capital # risk_manager.current_capital) =>
        /\ \E i \in DOMAIN ledger.state.open_positions :
               ~HasPosition(ledger'.state.open_positions,
                            ledger.state.open_positions[i].symbol)
        /\ risk_manager'.current_capital - risk_manager.current_capital
               = risk_manager'.daily_pnl - risk_manager.daily_pnl
        /\ risk_manager'.current_capital - risk_manager.current_capital
               = ledger'.state.daily_pnl - ledger.state.daily_pnl

\* C11: a PaperBroker.place_order call, accepted or rejected, leaves
\* RiskManager.current_capital, RiskManager.daily_pnl and the ledger's daily_pnl
\* unchanged; on the broker path capital changes only through update_pnl when a
\* position closes
C11_NoPlacementChangesCapital == []C11_PlacementFrame /\ [][C11_CapitalStep]_vars

\* PaperBroker has filled a BUY and holds the position with the capital untouched
C11_Witness ==
    /\ mode = "paper"
    /\ ledger.state.orders # << >>
    /\ ledger.state.open_positions # << >>
    /\ risk_manager.current_capital = TOTAL_CAPITAL
    /\ risk_manager.daily_pnl = 0
    /\ ledger.state.daily_pnl = 0

\* the order call c breaks one of the rules of placement
C12_BreaksRule(c) ==
    \/ c[1] <= 0
    \/ c[2] \notin {"BUY", "SELL"}
    \/ c[3] \notin {"MARKET", "LIMIT", "SL", "SL-M"}
    \/ c[3] \in {"MARKET", "LIMIT", "SL"} /\ c[4] <= 0
    \/ c[3] = "SL-M" /\ c[5] <= 0
    \/ c[2] = "BUY" /\ c[1] > 0
          /\ c[4] * c[1] + calculate_transaction_cost(c[4], c[1], "BUY")
                 > risk_manager.current_capital

\* C12: a PaperBroker.place_order call that breaks a validation rule (quantity not
\* positive, side not BUY or SELL, unsupported order type, no price for MARKET,
\* LIMIT or SL, no trigger price for SL-M, a BUY whose price * quantity plus the
\* estimated cost exceeds the current capital) returns REJECTED and leaves the open
\* positions, the daily P&L and the capital unchanged
C12_RuleBreakersRejected ==
    mode = "paper" =>
        \A c \in OrderCalls :
            LET placed == PlaceCall(c)
            IN  C12_BreaksRule(c) =>
                    /\ placed.res.status = "REJECTED"
                    /\ placed.w.l.state.open_positions = ledger.state.open_positions
                    /\ placed.w.l.state.daily_pnl = ledger.state.daily_pnl
                    /\ placed.w.rm.daily_pnl = risk_manager.daily_pnl
                    /\ placed.w.rm.current_capital = risk_manager.current_capital

\* with a position open, a BUY of 4000 at 100.00 is turned away for want of capital
\* alone, while the same BUY of 50 is filled
C12_Witness ==
    /\ mode = "paper"
    /\ ledger.state.open_positions # << >>
    /\ C12_BreaksRule(<<4000, "BUY", "MARKET", 10000, 0>>)
    /\ PlaceCall(<<4000, "BUY", "MARKET", 10000, 0>>).res.status = "REJECTED"
    /\ PlaceCall(<<4000, "BUY", "MARKET", 10000, 0>>).res.errors = {"Insufficient capital"}
    /\ PlaceCall(<<50, "BUY", "MARKET", 10000, 0>>).res.status = "COMPLETE"

\* BUY calls of every supported type: <<quantity, side, order_type, price,
\* trigger_price>>, for 50 and for 4000 units
C31_BuyCalls ==
    {<<q, "BUY", t, pt[1], pt[2]>> : q \in {50, 4000}, t \in OrderTypes,
                                     pt \in {<<10000, 0>>, <<0, 12000>>, <<10000, 12000>>}}

\* C31: whenever PaperBroker fills a BUY order of a supported type, executed price *
\* quantity plus the cost of the fill is at most RiskManager.current_capital at the
\* time of the call
C31_FilledBuyWithinCapital ==
    mode = "paper" =>
        \A c \in C31_BuyCalls :
            LET placed == PlaceCall(c)
            IN  placed.res.status = "COMPLETE" =>
                    placed.res.average_price * c[1] + placed.res.costs
                        <= risk_manager.current_capital

\* what the capital check does cover: the reference price of a filled BUY, when one
\* was given
C31_ReferencePriceWithinCapital ==
    mode = "paper" =>
        \A c \in C31_BuyCalls :
            LET placed == PlaceCall(c)
            IN  (placed.res.status = "COMPLETE" /\ c[4] > 0) =>
                    c[4] * c[1] + calculate_transaction_cost(c[4], c[1], "BUY")
                        <= risk_manager.current_capital

\* every position of the map has a positive quantity
C32_AllPositive(positions) == \A i \in DOMAIN positions : positions[i].quantity > 0

\* the quantities a caller may pass: none, and those of the broker specification
C32_Qtys == BrokerQtys \cup {0}

C32_PaperPositive ==
    mode = "paper" =>
        /\ C32_AllPositive(ledger.state.open_positions)
        /\ \A symbol \in Symbols, quantity \in C32_Qtys, side \in {"BUY", "SELL"},
              price \in BrokerPrices :
              C32_AllPositive(PaperPlaceOrder(World, symbol, quantity, side, "MARKET", price,
                                              0, 0, 0, today).w.l.state.open_positions)
        /\ \A symbol \in Symbols, price \in BrokerPrices :
              LET closed == PaperClosePosition(World, symbol, price, "MANUAL", today)
              IN  /\ C32_AllPositive(closed.w.l.state.open_positions)
                  /\ closed.res.status = "closed" =>
                        ~HasPosition(closed.w.l.state.open_positions, symbol)

C32_BacktestPositive ==
    mode = "backtest" =>
        /\ C32_AllPositive(run.b.active_positions)
        /\ \A symbol \in BtSymbols, quantity \in C32_Qtys, side \in {"BUY", "SELL"},
              price \in BrokerPrices :
              C32_AllPositive(BacktestPlaceOrder(run.b, symbol, quantity, side, price, 0, 0,
                                                 "BACKTEST", 0, 101).b.active_positions)

\* C32: after any sequence of place_order and close_position calls on either broker
\* every entry of the open-positions map has quantity > 0, and a position whose
\* quantity would reach zero or below is removed
C32_PositionsPositive == C32_PaperPositive /\ C32_BacktestPositive

\* the exit prices a close is called with; 0 is close_position's default
ClosePrices == BrokerPrices \cup {0}

\* the result of close_position(symbol, price) in the current state
CloseCall(symbol, price) == PaperClosePosition(World, symbol, price, "MANUAL", today)

\* the exit order of the close is one the validation layer turns away
C13_ExitOrderInvalid(symbol, price) ==
    /\ HasPosition(ledger.state.open_positions, symbol)
    /\ \/ price <= 0
       \/ /\ GetPosition(ledger.state.open_positions, symbol).side = "SELL"
          /\ price * GetPosition(ledger.state.open_positions, symbol).quantity
               + calculate_transaction_cost(price,
                     GetPosition(ledger.state.open_positions, symbol).quantity, "BUY")
               > risk_manager.current_capital

\* C13: PaperBroker.place_order and PaperBroker.close_position return a result
\* (COMPLETE, REJECTED, closed or error) and never raise; a close whose exit order
\* fails validation and a close of a symbol without a position return an error
\* result and leave the positions, the order log and the daily P&L unchanged
C13_NoRaisePastBroker ==
    mode = "paper" =>
        /\ \A c \in OrderCalls : PlaceCall(c).res.status \in {"COMPLETE", "REJECTED"}
        /\ \A symbol \in Symbols, price \in ClosePrices :
              /\ CloseCall(symbol, price).res.status \in {"closed", "error"}
              /\ (~HasPosition(ledger.state.open_positions, symbol)
                      \/ C13_ExitOrderInvalid(symbol, price)) =>
                    /\ CloseCall(symbol, price).res.status = "error"
                    /\ CloseCall(symbol, price).w.l.state.open_positions
                          = ledger.state.open_positions
                    /\ CloseCall(symbol, price).w.l.state.orders = ledger.state.orders
                    /\ CloseCall(symbol, price).w.l.state.daily_pnl = ledger.state.daily_pnl

\* gross P&L of closing pos at exit_price
C14_Gross(pos, exit_price) ==
    IF pos.side = "BUY" THEN (exit_price - pos.entry_price) * pos.quantity
    ELSE (pos.entry_price - exit_price) * pos.quantity

\* C14: after PaperBroker.close_position on a symbol with an open position the
\* symbol is absent from the open positions, daily_pnl has moved by exactly the
\* returned net_pnl, which is strictly less than the gross P&L, and exactly one
\* closed trade has been appended
C14_CloseComplete ==
    mode = "paper" =>
        \A symbol \in Symbols, price \in ClosePrices :
            HasPosition(ledger.state.open_positions, symbol) =>
                /\ ~HasPosition(CloseCall(symbol, price).w.l.state.open_positions, symbol)
                /\ CloseCall(symbol, price).w.l.state.daily_pnl
                      = ledger.state.daily_pnl + CloseCall(symbol, price).res.net_pnl
                /\ CloseCall(symbol, price).res.net_pnl
                      < C14_Gross(GetPosition(ledger.state.open_positions, symbol),
                                  CloseCall(symbol, price).res.exit_price)
                /\ Appended(ledger.state.closed_trades,
                            CloseCall(symbol, price).w.l.state.closed_trades)

\* every order call, filled or rejected, adds one record to the order log
C15_EveryCallLogged ==
    mode = "paper" =>
        \A c \in OrderCalls : Appended(ledger.state.orders, PlaceCall(c).w.l.state.orders)

\* a step of the broker keeps the records the log has
C15_LogKept ==
    mode = "paper" =>
        /\ Len(ledger'.state.orders) >= Len(ledger.state.orders)
        /\ SubSeq(ledger'.state.orders, 1, Len(ledger.state.orders)) = ledger.state.orders

\* C15: the order log is append-only with one record per placement attempt: every
\* PaperBroker.place_order call, filled or rejected, appends exactly one record to
\* the ledger's orders, and no broker operation changes or removes a record
C15_OrderLogAppendOnly == []C15_EveryCallLogged /\ [][C15_LogKept]_vars

\* the executed price a fill of the order type must have, given what it filled at
C16_PriceByType(side, order_type, price, trigger_price, executed_price) ==
    /\ (order_type = "MARKET" /\ side = "BUY") => executed_price >= price
    /\ (order_type = "MARKET" /\ side = "SELL") => executed_price <= price
    /\ order_type = "LIMIT" => executed_price = price
    /\ order_type = "SL-M" => executed_price = trigger_price

\* the result of BacktestBroker.place_order for 50 of NIFTY 25000 CE in the current state
BtPlaceCall(side, order_type, price, trigger_price) ==
    BacktestPlaceOrderTyped(run.b, "NIFTY 25000 CE", 50, side, order_type, price,
                            trigger_price, "BACKTEST", 0)

\* C16: in both brokers a MARKET fill executes at or above the reference price for a
\* BUY and at or below it for a SELL, a LIMIT fill executes exactly at the limit
\* price, an SL-M fill executes exactly at the trigger price, and the cost of the
\* fill is the cost model's at the executed price
C16_ExecutionPriceByType ==
    /\ mode = "paper" =>
          \A c \in OrderCalls :
              PlaceCall(c).res.status = "COMPLETE" =>
                  /\ C16_PriceByType(c[2], c[3], c[4], c[5], PlaceCall(c).res.average_price)
                  /\ PlaceCall(c).res.costs
                        = calculate_transaction_cost(PlaceCall(c).res.average_price,
                                                     c[1], c[2])
    /\ mode = "backtest" =>
          \A side \in {"BUY", "SELL"}, order_type \in {"MARKET", "LIMIT", "SL-M"},
             pt \in TypedPrices :
              BtExactSlippage(run.b, side, pt[1]) =>
                  /\ C16_PriceByType(side, order_type, pt[1], pt[2],
                         BtPlaceCall(side, order_type, pt[1], pt[2]).res.average_price)
                  /\ BtPlaceCall(side, order_type, pt[1], pt[2]).res.costs
                        = calculate_transaction_cost(
                              BtPlaceCall(side, order_type, pt[1], pt[2]).res.average_price,
                              50, side)

(***************************************************************************)
(* Round trips: either broker is driven through buys and closes of 50 of a *)
(* symbol, long enough for two full round trips.                           *)
(***************************************************************************)
MaxRoundTripOrders == 4

RtPaperOpen(symbol, price) ==
    /\ mode = "paper"
    /\ Len(ledger.state.orders) < MaxRoundTripOrders
    /\ PlaceOrder(symbol, 50, "BUY", price)
    /\ LiveFrame

RtPaperClose(symbol, exit_price) ==
    /\ mode = "paper"
    /\ Len(ledger.state.orders) < MaxRoundTripOrders
    /\ HasPosition(ledger.state.open_positions, symbol)
    /\ CloseTradeManual(symbol, exit_price)
    /\ LiveFrame

RtBacktestOrder(symbol, side, price) ==
    /\ mode = "backtest"
    /\ Len(run.b.trades) < MaxRoundTripOrders
    /\ side = "SELL" => HasPosition(run.b.active_positions, symbol)
    /\ BtExactSlippage(run.b, side, price)
    /\ run' = [run EXCEPT !.b = BacktestPlaceOrder(run.b, symbol, 50, side, price, 0, 0,
                                                   "BACKTEST", 0, 101).b]
    /\ BtFrame

RoundTripNext ==
    \/ \E symbol \in Symbols, price \in BrokerPrices : RtPaperOpen(symbol, price)
    \/ \E symbol \in Symbols, exit_price \in BrokerPrices : RtPaperClose(symbol, exit_price)
    \/ \E symbol \in BtSymbols, side \in {"BUY", "SELL"}, price \in BrokerPrices :
         RtBacktestOrder(symbol, side, price)

SpecRoundTrip == BrokersInit /\ [][RoundTripNext]_vars

\* a round trip through PaperBroker: a market BUY at entry, then close_position at
\* exit; through BacktestBroker: a BUY at entry, then a SELL of the same quantity
PaperRoundTrip(w, symbol, quantity, entry, exit) ==
    PaperClosePosition(PaperPlaceOrder(w, symbol, quantity, "BUY", "MARKET", entry, 0, 0, 0,
                                       today).w,
                       symbol, exit, "MANUAL", today)

BtRoundTrip(b, symbol, quantity, entry, exit) ==
    BacktestPlaceOrder(BacktestPlaceOrder(b, symbol, quantity, "BUY", entry, 0, 0,
                                          "BACKTEST", 0, 101).b,
                       symbol, quantity, "SELL", exit, 0, 0, "BACKTEST", 0, 101).b

\* the realized P&L of the round trip that ended in b
BtLastPnl(b) == b.trades[Len(b.trades)].pnl

\* two PaperBroker round trips that were both carried out realized the same P&L
C23_SamePaper(first, second) ==
    (first.res.status = "closed" /\ second.res.status = "closed") =>
        first.res.net_pnl = second.res.net_pnl

C23_PaperTwice(first, symbol, entry, exit) ==
    C23_SamePaper(first, PaperRoundTrip(first.w, symbol, 50, entry, exit))

C23_BtTwice(first, symbol, entry, exit) ==
    BtLastPnl(first) = BtLastPnl(BtRoundTrip(first, symbol, 50, entry, exit))

\* C23: opening and closing a position and then opening and closing an identical
\* one (same symbol, quantity, entry and exit prices) realizes the same P&L both
\* times, in both brokers and whatever was traded before
C23_RoundTripIdempotent ==
    /\ mode = "paper" =>
          \A symbol \in Symbols, entry \in BrokerPrices, exit \in BrokerPrices :
              ~HasPosition(ledger.state.open_positions, symbol) =>
                  C23_PaperTwice(PaperRoundTrip(World, symbol, 50, entry, exit),
                                 symbol, entry, exit)
    /\ mode = "backtest" =>
          \A symbol \in BtSymbols, entry \in BrokerPrices, exit \in BrokerPrices :
              (/\ ~HasPosition(run.b.active_positions, symbol)
               /\ BtExactSlippage(run.b, "BUY", entry)
               /\ BtExactSlippage(run.b, "SELL", exit)) =>
                  C23_BtTwice(BtRoundTrip(run.b, symbol, 50, entry, exit),
                              symbol, entry, exit)

\* PaperBroker has twice bought 50 of a symbol at 100.00 and closed them at 120.00:
\* the realized P&L is twice what one such round trip realizes
C23_Witness ==
    /\ mode = "paper"
    /\ Len(ledger.state.orders) = 4
    /\ ledger.state.open_positions = << >>
    /\ ledger.state.orders[1].side = "BUY"
    /\ ledger.state.orders[2].side = "SELL"
    /\ ledger.state.orders[3] = ledger.state.orders[1]
    /\ ledger.state.orders[4] = ledger.state.orders[2]
    /\ ledger.state.orders[2].symbol = ledger.state.orders[1].symbol
    /\ ledger.state.orders[1].price > 10000
    /\ ledger.state.orders[1].price < ledger.state.orders[2].price
    /\ PaperRoundTrip(World, ledger.state.orders[1].symbol, 50, 10000, 12000).res.status
         = "closed"
    /\ ledger.state.daily_pnl
         = 2 * PaperRoundTrip(World, ledger.state.orders[1].symbol, 50, 10000,
                              12000).res.net_pnl

\* the position of symbol after a fill of quantity against the positions held before:
\* the quantity is lower by the fill, and the position is gone at zero
C25_Reduced(before, after, symbol, quantity) ==
    IF GetPosition(before, symbol).quantity - quantity <= 0
    THEN ~HasPosition(after, symbol)
    ELSE /\ HasPosition(after, symbol)
         /\ GetPosition(after, symbol).quantity
              = GetPosition(before, symbol).quantity - quantity

\* C25: in both brokers a SELL filled through place_order for a symbol with an open
\* long position lowers the position's quantity by the filled amount and removes the
\* position when the quantity reaches zero
C25_ClosingFillReduces ==
    /\ mode = "paper" =>
          \A symbol \in Symbols, quantity \in BrokerQtys, price \in BrokerPrices :
              LET before == ledger.state.open_positions
                  placed == PaperPlaceOrder(World, symbol, quantity, "SELL", "MARKET",
                                            price, 0, 0, 0, today)
              IN  (/\ HasPosition(before, symbol)
                   /\ GetPosition(before, symbol).side = "BUY"
                   /\ placed.res.status = "COMPLETE")
                  => C25_Reduced(before, placed.w.l.state.open_positions, symbol, quantity)
    /\ mode = "backtest" =>
          \A symbol \in BtSymbols, quantity \in BrokerQtys, price \in BrokerPrices :
              LET before == run.b.active_positions
                  placed == BacktestPlaceOrder(run.b, symbol, quantity, "SELL", price, 0, 0,
                                               "BACKTEST", 0, 101)
              IN  HasPosition(before, symbol)
                  => C25_Reduced(before, placed.b.active_positions, symbol, quantity)

\* the same for BacktestBroker alone
C25_BacktestFillReduces ==
    mode = "backtest" =>
        \A symbol \in BtSymbols, quantity \in BrokerQtys, price \in BrokerPrices :
            LET before == run.b.active_positions
                placed == BacktestPlaceOrder(run.b, symbol, quantity, "SELL", price, 0, 0,
                                             "BACKTEST", 0, 101)
            IN  HasPosition(before, symbol)
                => C25_Reduced(before, placed.b.active_positions, symbol, quantity)

(***************************************************************************)
(* Overlapping closes.  close_trade_manual is a plain def handler, served  *)
(* by a worker thread, and check_positions runs inside market_data_loop;   *)
(* both call PaperBroker.close_position, which takes no lock.  A call is   *)
(* the frame [pc, symbol, price, reason, pos, ex, net_pnl, status] of its  *)
(* locals, and it advances by the statements of close_position that touch  *)
(* the ledger: the fetch of the position (line 228), place_order (241),    *)
(* the two update_pnl (299-300), state_manager.close_position (301),       *)
(* add_closed_trade (324).  run maps each caller to its frame.             *)
(***************************************************************************)
Closers == {"manual", "monitor"}
CloserPrices == {8000, 12000}

NoPosition ==
    [symbol |-> "", side |-> "", quantity |-> 0, entry_price |-> 0, stop_loss |-> 0,
     target |-> 0, option_type |-> ""]
NoFill == [status |-> "none", errors |-> {}, average_price |-> 0, slippage |-> 0, costs |-> 0]
IdleCloser ==
    [pc |-> "idle", symbol |-> "", price |-> 0, reason |-> "", pos |-> NoPosition,
     ex |-> NoFill, net_pnl |-> 0, status |-> "none"]

\* the ledger holds one long position with both levels set, bought through place_order
CloseInit ==
    /\ \E symbol \in Symbols, quantity \in BrokerQtys :
         LET w0 == [rm |-> RiskManagerInit(TOTAL_CAPITAL),
                    l |-> [state |-> TradeStateInit(0), file |-> AbsentFile,
                           tmp |-> AbsentFile],
                    pb |-> [slippage_pct |-> SLIPPAGE_NUM]]
             w1 == PaperPlaceOrder(w0, symbol, quantity, "BUY", "MARKET", 10000, 0, 9000,
                                   11000, 0).w
         IN  /\ risk_manager = w1.rm
             /\ ledger = w1.l
             /\ paper_broker = w1.pb
    /\ today = 0
    /\ ever_tripped = FALSE
    /\ run = [c \in Closers |-> IdleCloser]
    /\ mode = "closing"
    /\ store = NoSave

CloseFrame == History /\ UNCHANGED <<paper_broker, today, mode, store>>

\* pos = open_positions.get(symbol); if not pos: return error
close_position_fetch(frame, positions, symbol, price, reason) ==
    IF HasPosition(positions, symbol)
    THEN [frame EXCEPT !.pc = "fetched", !.symbol = symbol, !.price = price,
                       !.reason = reason, !.pos = GetPosition(positions, symbol)]
    ELSE [frame EXCEPT !.pc = "returned", !.symbol = symbol, !.price = price,
                       !.reason = reason, !.status = "error"]

\* DELETE /trade/{symbol}: the handler up to the first statement of close_position
ManualCloseBegin(symbol, price) ==
    /\ mode = "closing"
    /\ run["manual"].pc = "idle"
    /\ ExactSlippage(World, price)
    /\ run' = [run EXCEPT !["manual"] = close_position_fetch(@, ledger.state.open_positions,
                                             symbol, price, "Manual API Close")]
    /\ UNCHANGED <<risk_manager, ledger>>
    /\ CloseFrame

\* check_positions finds the level of a held position hit at ltp and calls
\* close_position, up to its first statement
MonitorCloseBegin(symbol, ltp) ==
    /\ mode = "closing"
    /\ run["monitor"].pc = "idle"
    /\ ExactSlippage(World, ltp)
    /\ HasPosition(ledger.state.open_positions, symbol)
    /\ monitor_reason(GetPosition(ledger.state.open_positions, symbol), ltp) # ""
    /\ run' = [run EXCEPT !["monitor"] =
                  close_position_fetch(@, ledger.state.open_positions, symbol, ltp,
                      monitor_reason(GetPosition(ledger.state.open_positions, symbol), ltp))]
    /\ UNCHANGED <<risk_manager, ledger>>
    /\ CloseFrame

\* exec_result = self.place_order(...); a rejection raises at exec_result["average_price"]
CloseExitOrder(c) ==
    /\ mode = "closing"
    /\ run[c].pc = "fetched"
    /\ LET f  == run[c]
           ex == PaperPlaceOrder(World, f.symbol, f.pos.quantity,
                                 IF f.pos.side = "BUY" THEN "SELL" ELSE "BUY", "MARKET",
                                 f.price, 0, 0, 0, today)
       IN  /\ Commit(ex.w)
           /\ run' = [run EXCEPT ![c] =
                         IF ex.res.status = "REJECTED"
                         THEN [f EXCEPT !.pc = "returned", !.ex = ex.res, !.status = "raised"]
                         ELSE [f EXCEPT !.pc = "ordered", !.ex = ex.res,
                                        !.net_pnl = paper_net_pnl(f.pos.side,
                                                        f.pos.entry_price,
                                                        ex.res.average_price,
                                                        f.pos.quantity)]]
    /\ CloseFrame

\* state_manager.update_pnl(net_pnl); risk_manager.update_pnl(net_pnl)
CloseUpdatePnl(c) ==
    /\ mode = "closing"
    /\ run[c].pc = "ordered"
    /\ ledger' = SM_update_pnl(ledger, run[c].net_pnl, today)
    /\ risk_manager' = update_pnl(risk_manager, run[c].net_pnl)
    /\ run' = [run EXCEPT ![c].pc = "booked"]
    /\ CloseFrame

\* state_manager.close_position(symbol)
CloseRemovePosition(c) ==
    /\ mode = "closing"
    /\ run[c].pc = "booked"
    /\ ledger' = SM_close_position(ledger, run[c].symbol, today)
    /\ run' = [run EXCEPT ![c].pc = "removed"]
    /\ UNCHANGED risk_manager
    /\ CloseFrame

\* state_manager.add_closed_trade(closed_trade); return {"status": "closed", ...}
CloseRecordTrade(c) ==
    /\ mode = "closing"
    /\ run[c].pc = "removed"
    /\ LET f == run[c]
       IN  ledger' = SM_add_closed_trade(ledger,
                         [symbol |-> f.symbol, action |-> f.pos.side,
                          quantity |-> f.pos.quantity, entryPrice |-> f.pos.entry_price,
                          exitPrice |-> f.ex.average_price, pnl |-> f.net_pnl,
                          exitReason |-> f.reason],
                         today)
    /\ run' = [run EXCEPT ![c].pc = "returned", ![c].status = "closed"]
    /\ UNCHANGED risk_manager
    /\ CloseFrame

CloseNext ==
    \/ \E symbol \in Symbols, price \in CloserPrices : ManualCloseBegin(symbol, price)
    \/ \E symbol \in Symbols, ltp \in CloserPrices : MonitorCloseBegin(symbol, ltp)
    \/ \E c \in Closers : CloseExitOrder(c)
    \/ \E c \in Closers : CloseUpdatePnl(c)
    \/ \E c \in Closers : CloseRemovePosition(c)
    \/ \E c \in Closers : CloseRecordTrade(c)

SpecClose == CloseInit /\ [][CloseNext]_vars

\* the exit orders of the log: the orders after the opening BUY
C26_ExitOrders == {k \in DOMAIN ledger.state.orders : ledger.state.orders[k].side = "SELL"}

\* C26: when a manual close and the monitor's auto-close of the same symbol overlap,
\* the realized P&L of the position is added to daily_pnl at most once, and at most
\* one exit order and at most one ClosedTrade are recorded for it
C26_ClosedAtMostOnce ==
    mode = "closing" =>
        /\ Cardinality(C26_ExitOrders) <= 1
        /\ Len(ledger.state.closed_trades) <= 1
        /\ \/ ledger.state.daily_pnl = 0
           \/ \E k \in C26_ExitOrders :
                 ledger.state.daily_pnl
                   = paper_net_pnl("BUY", ledger.state.orders[1].price,
                                   ledger.state.orders[k].price,
                                   ledger.state.orders[1].quantity)

(***************************************************************************)
(* PositionMonitor on its own: positions of either side enter the ledger   *)
(* through StateManager.add_position with the stop and target given, and   *)
(* check_positions runs on an option chain that quotes each symbol at a    *)
(* price or not at all (0).                                                *)
(***************************************************************************)
MaxMonitorOrders == 2

MonitorQtys == {50}
MonitorEntries == {10000}
\* <<stop_loss, target>>: none, both, crossed (both can hold at once), one of the two
MonitorLevels == {<<0, 0>>, <<9000, 11000>>, <<12000, 8000>>, <<0, 11000>>, <<9000, 0>>}
MonitorTicks == [Symbols -> {0, 8000, 12000}]

MonitorInit ==
    /\ risk_manager = RiskManagerInit(TOTAL_CAPITAL)
    /\ ledger = [state |-> TradeStateInit(0), file |-> AbsentFile, tmp |-> AbsentFile]
    /\ paper_broker = [slippage_pct |-> SLIPPAGE_NUM]
    /\ today = 0
    /\ ever_tripped = FALSE
    /\ run = NoRun
    /\ mode = "monitor"
    /\ store = NoSave

\* StateManager.add_position for a symbol that is not held
MonitorAddPosition(symbol, side, quantity, entry_price, stop_loss, target) ==
    /\ ~HasPosition(ledger.state.open_positions, symbol)
    /\ Len(ledger.state.orders) < MaxMonitorOrders
    /\ ledger' = SM_add_position(ledger, symbol,
                     [symbol |-> symbol, side |-> side, quantity |-> quantity,
                      entry_price |-> entry_price, stop_loss |-> stop_loss,
                      target |-> target, option_type |-> parse_option_type(symbol)],
                     today)
    /\ UNCHANGED <<risk_manager, paper_broker, today>>
    /\ LiveFrame

\* PositionMonitor.check_positions on the option chain ltp
MonitorTick(ltp) ==
    /\ Len(ledger.state.orders) < MaxMonitorOrders
    /\ Commit(check_positions(World, ledger.state.open_positions, 1, ltp, today))
    /\ UNCHANGED <<paper_broker, today>>
    /\ LiveFrame

MonitorNext ==
    \/ \E symbol \in Symbols, side \in {"BUY", "SELL"}, quantity \in MonitorQtys,
         entry_price \in MonitorEntries, lv \in MonitorLevels :
         MonitorAddPosition(symbol, side, quantity, entry_price, lv[1], lv[2])
    \/ \E ltp \in MonitorTicks : MonitorTick(ltp)

SpecMonitor == MonitorInit /\ [][MonitorNext]_vars

\* the stop of the position is hit at price; its target is hit at price
C17_StopHit(pos, price) ==
    /\ pos.stop_loss > 0
    /\ IF pos.side = "BUY" THEN price <= pos.stop_loss ELSE price >= pos.stop_loss

C17_TargetHit(pos, price) ==
    /\ pos.target > 0
    /\ IF pos.side = "BUY" THEN price >= pos.target ELSE price <= pos.target

\* the exit order close_position(symbol, price) places for pos is in the log
C17_ExitLogged(orders, pos, price) ==
    \E k \in DOMAIN orders :
        /\ k > Len(ledger.state.orders)
        /\ orders[k].symbol = pos.symbol
        /\ orders[k].quantity = pos.quantity
        /\ orders[k].side = (IF pos.side = "BUY" THEN "SELL" ELSE "BUY")
        /\ orders[k].price
             = (IF pos.side = "BUY"
                THEN price - (price * paper_broker.slippage_pct) \div SLIPPAGE_DEN
                ELSE price + (price * paper_broker.slippage_pct) \div SLIPPAGE_DEN)

\* what check_positions on the chain ltp does to the position pos, after being the
\* ledger state it leaves
C17_Outcome(pos, price, after) ==
    IF price # 0 /\ (C17_StopHit(pos, price) \/ C17_TargetHit(pos, price))
    THEN /\ ~HasPosition(after.open_positions, pos.symbol)
         /\ C17_ExitLogged(after.orders, pos, price)
         /\ monitor_reason(pos, price)
              = (IF C17_StopHit(pos, price) THEN "Stop Loss Hit" ELSE "Target Hit")
    ELSE /\ HasPosition(after.open_positions, pos.symbol)
         /\ GetPosition(after.open_positions, pos.symbol) = pos
         /\ \A k \in DOMAIN after.orders :
               k > Len(ledger.state.orders) => after.orders[k].symbol # pos.symbol

C17_TickOutcome(ltp, after) ==
    \A i \in DOMAIN ledger.state.open_positions :
        C17_Outcome(ledger.state.open_positions[i],
                    ltp[ledger.state.open_positions[i].symbol], after)

\* C17: when check_positions runs with a price for a position, a long position is
\* closed exactly when its stop is set and the price is at or below it or its target
\* is set and the price is at or above it, a short position with the inequalities
\* mirrored; the reason is the stop loss when both hold; close_position is called
\* with the price found; a position whose price is not found is left as it is
C17_MonitorTriggerRule ==
    mode = "monitor" =>
        \A ltp \in MonitorTicks :
            C17_TickOutcome(ltp, check_positions(World, ledger.state.open_positions, 1, ltp,
                                                 today).l.state)

\* the monitor has closed a long position at its stop (LTP 80.00, stop 90.00) and
\* left in place a position whose stop and target both hold at LTP 80.00
C17_Witness ==
    /\ mode = "monitor"
    /\ Len(ledger.state.orders) = 1
    /\ ledger.state.orders[1].side = "SELL"
    /\ ledger.state.orders[1].price
         = 8000 - (8000 * paper_broker.slippage_pct) \div SLIPPAGE_DEN
    /\ Len(ledger.state.open_positions) = 1
    /\ ledger.state.open_positions[1].stop_loss = 12000
    /\ ledger.state.open_positions[1].target = 8000
    /\ C17_StopHit(ledger.state.open_positions[1], 8000)
    /\ C17_TargetHit(ledger.state.open_positions[1], 8000)

\* C36: the persisted kill-switch flag follows the risk manager's flag: whenever
\* RiskManager.kill_switch_active is true, the ledger's kill_switch_active is true in
\* memory and in the saved file, so that load and restore_state bring the switch back
C36_PersistedFlagFollows ==
    (mode = "live" /\ risk_manager.kill_switch_active) =>
        /\ ledger.state.kill_switch_active
        /\ JsonHas(ledger.file, "kill_switch_active")
        /\ JsonGet(ledger.file, "kill_switch_active")

(***************************************************************************)
(* The monitor over positions whose close raises: the exit BUY of a short  *)
(* position of 4000 fails the capital check of place_order, and            *)
(* close_position raises on the rejection (KeyError at line 248).          *)
(***************************************************************************)
IsolationQtys == {50, 4000}
IsolationLevels == {<<9000, 11000>>, <<12000, 8000>>}

IsolationNext ==
    \/ \E symbol \in Symbols, side \in {"BUY", "SELL"}, quantity \in IsolationQtys,
         lv \in IsolationLevels :
         MonitorAddPosition(symbol, side, quantity, 10000, lv[1], lv[2])
    \/ \E ltp \in MonitorTicks : MonitorTick(ltp)

SpecIsolation == MonitorInit /\ [][IsolationNext]_vars

\* close_position for pos at price raises in the world w
C33_Raises(w, pos, price) ==
    PaperClosePosition(w, pos.symbol, price, monitor_reason(pos, price),
                       today).res.status = "raised"

\* the trigger of pos holds at price
C33_Triggered(pos, price) ==
    price # 0 /\ (C17_StopHit(pos, price) \/ C17_TargetHit(pos, price))

\* the world in which the loop reaches the i-th position of the snapshot
C33_WorldAt(snapshot, i, ltp) ==
    check_positions(World, SubSeq(snapshot, 1, i - 1), 1, ltp, today)

\* C33: when close_position raises for one position during check_positions, the
\* call goes on: every other open position whose trigger holds is still closed (it is
\* gone and its exit order is logged), and the position whose close raised is left
\* as it was
C33_ExceptionIsolation ==
    mode = "monitor" =>
        \A ltp \in MonitorTicks :
            LET before == ledger.state.open_positions
                after  == check_positions(World, before, 1, ltp, today).l.state
            IN  \A i \in DOMAIN before :
                    LET pos == before[i]
                    IN  C33_Triggered(pos, ltp[pos.symbol]) =>
                            IF C33_Raises(C33_WorldAt(before, i, ltp), pos, ltp[pos.symbol])
                            THEN /\ HasPosition(after.open_positions, pos.symbol)
                                 /\ GetPosition(after.open_positions, pos.symbol) = pos
                            ELSE /\ ~HasPosition(after.open_positions, pos.symbol)
                                 /\ C17_ExitLogged(after.orders, pos, ltp[pos.symbol])

\* the monitor has closed the second position of the ledger and left the first, a
\* short position of 4000 whose trigger holds at every price of the chain and whose
\* close raises
C33_Witness ==
    /\ mode = "monitor"
    /\ Len(ledger.state.open_positions) = 1
    /\ ledger.state.open_positions[1].side = "SELL"
    /\ ledger.state.open_positions[1].quantity = 4000
    /\ \A price \in {8000, 12000} :
          /\ C33_Triggered(ledger.state.open_positions[1], price)
          /\ C33_Raises(World, ledger.state.open_positions[1], price)
    /\ Len(ledger.state.orders) = 1
    /\ ledger.state.orders[1].symbol # ledger.state.open_positions[1].symbol
    /\ ledger.state.orders[1].quantity = 50

(***************************************************************************)
(* The stateless calculators, KellyRiskStrategy.calculate_size and         *)
(* CostModel.get_breakdown, under direct calls: run holds the last call,   *)
(* its arguments and what it returned.                                     *)
(***************************************************************************)
\* <<win_rate_pct, payoff_ratio, lot_size>> of the strategy
KellyStrategies == {<<30, 2, 25>>, <<45, 2, 25>>, <<45, 1, 25>>, <<60, 2, 25>>, <<45, 2, 50>>}
\* capital, entry and stop in paise, the cap in percent
KellyCapitals == {0, 100000, 10000000}
KellyEntries == {10000}
KellyStops == {9000, 9993, 10000, 11000}
KellyCaps == {0, 2, 5}

CalcInit ==
    /\ LiveInit
    /\ mode = "calc"
    /\ store = NoSave
    /\ run = [call |-> "none", args |-> << >>, result |-> 0]

CalcFrame == UNCHANGED <<risk_manager, ledger, paper_broker, today, ever_tripped, mode, store>>

\* KellyRiskStrategy(win_rate, payoff_ratio, lot_size).calculate_size(...)
CalcKellySize(st, capital, entry_price, stop_loss, risk_cap_pct) ==
    /\ run' = [call |-> "calculate_size",
               args |-> <<st[1], st[2], st[3], capital, entry_price, stop_loss, risk_cap_pct>>,
               result |-> kelly_size(st[1], st[2], st[3], capital, entry_price, stop_loss,
                                     risk_cap_pct)]
    /\ CalcFrame

\* CostModel.get_breakdown(price, quantity, side)
CalcBreakdown(price, quantity, side) ==
    /\ run' = [call |-> "get_breakdown", args |-> <<price, quantity, side>>,
               result |-> get_breakdown(price, quantity, side)]
    /\ CalcFrame

CostPrices == {1, 5, 10000, 12345}
CostQtys == {1, 25, 50, 1000}

\* the position sizing of an entry of BacktestRunner.run, with the broker's capital,
\* the premium of the row and the risk_per_trade of the signal
CalcEntryQuantity(capital, entry_price, risk_per_trade) ==
    /\ run' = [call |-> "entry_quantity", args |-> <<capital, entry_price, risk_per_trade>>,
               result |-> EntryQuantity(BacktestBrokerInit(capital, 50), entry_price,
                                        risk_per_trade)]
    /\ CalcFrame

EntryCapitals == {5000000, 10000000}
EntryPremiums == {400, 500, 770, 40200}
EntryRisks == {1, 2, 5}

CalcNext ==
    \/ \E st \in KellyStrategies, capital \in KellyCapitals, entry_price \in KellyEntries,
         stop_loss \in KellyStops, risk_cap_pct \in KellyCaps :
         CalcKellySize(st, capital, entry_price, stop_loss, risk_cap_pct)
    \/ \E price \in CostPrices, quantity \in CostQtys, side \in {"BUY", "SELL"} :
         CalcBreakdown(price, quantity, side)
    \/ \E capital \in EntryCapitals, entry_price \in EntryPremiums,
         risk_per_trade \in EntryRisks :
         CalcEntryQuantity(capital, entry_price, risk_per_trade)

SpecCalc == CalcInit /\ [][CalcNext]_vars

\* the clamped fraction min(f* / 4, cap) of the call a is positive, f* being
\* (p (b + 1) - 1) / b
C22_FractionPositive(a) ==
    /\ a[1] * (a[2] + 1) - 100 > 0
    /\ a[7] > 0

\* floor(capital * fraction / |entry - stop|) of the call a whose fraction is positive
\* and whose entry and stop differ
C22_Budget(a) ==
    IF (a[1] * (a[2] + 1) - 100) * 100 <= a[7] * 400 * a[2]
    THEN (a[4] * (a[1] * (a[2] + 1) - 100)) \div (400 * a[2] * Abs(a[5] - a[6]))
    ELSE (a[4] * a[7]) \div (100 * Abs(a[5] - a[6]))

\* C22: calculate_size returns 0 when the clamped fraction min(f* / 4, risk_cap_pct)
\* is not positive or entry and stop are equal; otherwise the largest multiple of
\* lot_size not above floor(capital * fraction / |entry - stop|), which is 0 below
\* one lot; win rate 0.45, payoff 2, capital 100000, entry 100, stop 90, lot 25,
\* cap 0.05 give 425
C22_KellySizing ==
    (mode = "calc" /\ run.call = "calculate_size") =>
        /\ IF ~C22_FractionPositive(run.args) \/ run.args[5] = run.args[6]
           THEN run.result = 0
           ELSE /\ run.result % run.args[3] = 0
                /\ run.result <= C22_Budget(run.args)
                /\ run.result + run.args[3] > C22_Budget(run.args)
        /\ run.args = <<45, 2, 25, 10000000, 10000, 9000, 5>> => run.result = 425

\* the example of the claim has been computed
C22_Witness ==
    /\ mode = "calc"
    /\ run.call = "calculate_size"
    /\ run.args = <<45, 2, 25, 10000000, 10000, 9000, 5>>
    /\ run.result = 425

\* k times the amount p, for 0 <= k <= 100, in pieces that stay inside TLC's 32-bit
\* integers
C24_Lo(p, k) == k * (p.f % SplitBase)
C24_Hi(p, k) == k * (p.f \div SplitBase) + (C24_Lo(p, k) \div SplitBase)
C24_Times(p, k) ==
    [w |-> k * p.w + (C24_Hi(p, k) \div SplitBase),
     f |-> (C24_Hi(p, k) % SplitBase) * SplitBase + (C24_Lo(p, k) % SplitBase)]

C24_Positive(p) == p.w > 0 \/ (p.w = 0 /\ p.f > 0)
C24_Zero(p) == p.w = 0 /\ p.f = 0

\* C24: for a price and a quantity above 0 the BUY breakdown has a stamp duty above
\* 0 and no STT, the SELL breakdown has an STT above 0 and no stamp duty, and the
\* GST is 18% of brokerage + exchange charges + SEBI fees and of nothing else
C24_CostAsymmetry ==
    (mode = "calc" /\ run.call = "get_breakdown") =>
        /\ run.args[3] = "BUY" =>
              C24_Positive(run.result.stamp_duty) /\ C24_Zero(run.result.stt)
        /\ run.args[3] = "SELL" =>
              C24_Positive(run.result.stt) /\ C24_Zero(run.result.stamp_duty)
        /\ C24_Times(run.result.gst, 100)
              = C24_Times(FxAdd(run.result.brokerage,
                                FxAdd(run.result.exchange_charges, run.result.sebi_fees)),
                          18)

\* a SELL leg of 50 at 100.00 has been costed: STT 5.00, no stamp duty
C24_Witness ==
    /\ mode = "calc"
    /\ run.call = "get_breakdown"
    /\ run.args = <<10000, 50, "SELL">>
    /\ run.result.stt = [w |-> 500, f |-> 0]
    /\ C24_Zero(run.result.stamp_duty)

\* floor(risk% * capital / premium) of the sizing call a, in units
C29_Theoretical(a) == (a[3] * a[1]) \div (100 * a[2])

\* C29: every entry quantity of the backtest is a positive whole multiple of the lot
\* size, equal to floor(risk% * capital / premium) rounded down to whole lots with a
\* minimum of one lot, and above one lot it never exceeds risk% * capital / premium
C29_EntrySizing ==
    (mode = "calc" /\ run.call = "entry_quantity") =>
        /\ run.result > 0
        /\ run.result % RUNNER_LOT_SIZE = 0
        /\ run.result
              = Max(1, C29_Theoretical(run.args) \div RUNNER_LOT_SIZE) * RUNNER_LOT_SIZE
        /\ run.result > RUNNER_LOT_SIZE =>
              run.result * 100 * run.args[2] <= run.args[3] * run.args[1]

\* the part of it that is so: a positive whole multiple of the lot size, at least one
\* lot, the multiple of the lot size nearest to risk% * capital / premium
C29_NearestLot ==
    (mode = "calc" /\ run.call = "entry_quantity") =>
        /\ run.result >= RUNNER_LOT_SIZE
        /\ run.result % RUNNER_LOT_SIZE = 0
        /\ run.result > RUNNER_LOT_SIZE =>
              /\ (2 * run.result - RUNNER_LOT_SIZE) * 100 * run.args[2]
                    <= 2 * run.args[3] * run.args[1]
              /\ 2 * run.args[3] * run.args[1]
                    <= (2 * run.result + RUNNER_LOT_SIZE) * 100 * run.args[2]

(***************************************************************************)
(* The ledger across failures: a StateManager call runs JSONStateStore.save *)
(* one file operation at a time; an operation may raise (the except branch *)
(* of save), the process may stop anywhere and start again with load, and  *)
(* midnight may pass.  store.pc is where the process stands:               *)
(*   "idle"         no call under way                                      *)
(*   "mutated"      self.state changed, save entered                       *)
(*   "tmp_open"     last_updated set, the tmp file open and empty          *)
(*   "tmp_written"  the document written to the tmp file                   *)
(*   "removed"      the state file removed (if there was one)              *)
(*   "down"         the process has stopped                                *)
(* History kept beside it: saved, the state whose document the last        *)
(* completed rename put into the file; prev and new, the state in the file *)
(* when the last save began and the state that save writes; recovered, the *)
(* pc the process stopped at; loaded, load has just returned; returned,    *)
(* the last call has returned normally.                                    *)
(***************************************************************************)
MaxCalls == 3
MaxDay == 1

SavePcs == {"mutated", "tmp_open", "tmp_written", "removed"}

StorePnls == {-500, 500}
StorePosition(symbol) ==
    [symbol |-> symbol, side |-> "BUY", quantity |-> 50, entry_price |-> 10000,
     stop_loss |-> 0, target |-> 0, option_type |-> parse_option_type(symbol)]
StoreOrder ==
    [symbol |-> "NIFTY25000CE", side |-> "BUY", quantity |-> 50, price |-> 10000,
     status |-> "EXECUTED", slippage |-> 0, costs |-> 2582, pnl |-> 0]

StoreFrame == UNCHANGED <<risk_manager, paper_broker, ever_tripped, run, mode>>

\* the process is not running; the state file is missing or damaged
StoreInit ==
    /\ risk_manager = RiskManagerInit(TOTAL_CAPITAL)
    /\ paper_broker = [slippage_pct |-> SLIPPAGE_NUM]
    /\ ever_tripped = FALSE
    /\ run = NoRun
    /\ mode = "live"
    /\ today = 0
    /\ \E f \in {AbsentFile, CorruptFile} :
         ledger = [state |-> TradeStateInit(0), file |-> f, tmp |-> AbsentFile]
    /\ store = [NoSave EXCEPT !.pc = "down"]

\* a StateManager call changes self.state to st and enters save
Mutate(st) ==
    /\ store.pc = "idle"
    /\ store.calls < MaxCalls
    /\ ledger' = [ledger EXCEPT !.state = st]
    /\ store' = [store EXCEPT !.pc = "mutated", !.calls = @ + 1,
                              !.prev = IF ledger.file.kind = "json" THEN store.saved
                                       ELSE NoState,
                              !.new = [st EXCEPT !.last_updated = today],
                              !.recovered = "none", !.loaded = FALSE, !.returned = FALSE]
    /\ UNCHANGED today
    /\ StoreFrame

CallUpdatePnl(pnl) == Mutate(state_update_pnl(ledger.state, pnl))
CallSetKillSwitch(active) == Mutate(state_set_kill_switch(ledger.state, active))
CallAddPosition(symbol) ==
    Mutate(state_add_position(ledger.state, symbol, StorePosition(symbol)))
CallClosePosition(symbol) ==
    /\ HasPosition(ledger.state.open_positions, symbol)
    /\ Mutate(state_close_position(ledger.state, symbol))
CallAddOrder ==
    /\ Len(ledger.state.orders) < 2
    /\ Mutate(state_add_order(ledger.state, StoreOrder))

SaveOpenTmp ==
    /\ store.pc = "mutated"
    /\ ledger' = save_open_tmp(ledger, today)
    /\ store' = [store EXCEPT !.pc = "tmp_open"]
    /\ UNCHANGED today
    /\ StoreFrame

SaveDump ==
    /\ store.pc = "tmp_open"
    /\ ledger' = save_dump(ledger)
    /\ store' = [store EXCEPT !.pc = "tmp_written"]
    /\ UNCHANGED today
    /\ StoreFrame

SaveRemove ==
    /\ store.pc = "tmp_written"
    /\ ledger' = IF ledger.file.kind # "absent" THEN save_remove(ledger) ELSE ledger
    /\ store' = [store EXCEPT !.pc = "removed"]
    /\ UNCHANGED today
    /\ StoreFrame

\* the rename ends save; the call returns
SaveRename ==
    /\ store.pc = "removed"
    /\ ledger' = save_rename(ledger)
    /\ store' = [store EXCEPT !.pc = "idle", !.saved = ledger.state, !.returned = TRUE]
    /\ UNCHANGED today
    /\ StoreFrame

\* the file operation that is next raises (open, json.dump, os.remove of an
\* existing file, os.rename): "except Exception" logs it, save returns, the call
\* returns
SaveRaises ==
    /\ store.pc \in SavePcs
    /\ store.pc = "tmp_written" => ledger.file.kind # "absent"
    /\ ledger' = IF store.pc = "mutated" THEN [ledger EXCEPT !.state.last_updated = today]
                 ELSE ledger
    /\ store' = [store EXCEPT !.pc = "idle", !.returned = TRUE]
    /\ UNCHANGED today
    /\ StoreFrame

\* the process stops (power, kill): memory is lost, the files stay as they are
Crash ==
    /\ store.pc # "down"
    /\ store' = [store EXCEPT !.pc = "down", !.recovered = store.pc, !.loaded = FALSE,
                              !.returned = FALSE]
    /\ UNCHANGED <<ledger, today>>
    /\ StoreFrame

\* the process starts: StateManager.load
StoreStartup ==
    /\ store.pc = "down"
    /\ ledger' = SM_load(ledger, today)
    /\ store' = [store EXCEPT !.pc = "idle", !.loaded = TRUE]
    /\ UNCHANGED today
    /\ StoreFrame

\* midnight passes
NewDay ==
    /\ store.pc \in {"idle", "down"}
    /\ today < MaxDay
    /\ today' = today + 1
    /\ store' = [store EXCEPT !.loaded = FALSE]
    /\ UNCHANGED ledger
    /\ StoreFrame

StoreNext ==
    \/ \E pnl \in StorePnls : CallUpdatePnl(pnl)
    \/ \E active \in BOOLEAN : CallSetKillSwitch(active)
    \/ \E symbol \in Symbols : CallAddPosition(symbol)
    \/ \E symbol \in Symbols : CallClosePosition(symbol)
    \/ CallAddOrder
    \/ SaveOpenTmp
    \/ SaveDump
    \/ SaveRemove
    \/ SaveRename
    \/ SaveRaises
    \/ Crash
    \/ StoreStartup
    \/ NewDay

SpecStore == StoreInit /\ [][StoreNext]_vars

\* C8: when the process stopped inside save and load runs on the same day, with a
\* document of that day in the file when the save began, the loaded state is the
\* previously saved state or the new state
C8_CrashSafe ==
    (/\ store.loaded
     /\ store.recovered \in SavePcs
     /\ store.prev # NoState
     /\ store.prev.last_updated = today
     /\ store.new.last_updated = today) =>
        ledger.state \in {store.prev, store.new}

\* C9: when a StateManager call has returned normally, the state file holds the
\* document of the state the call left
C9_AckIsDurable ==
    store.returned => ledger.file = json_dump(asdict(ledger.state))

\* the state has the daily_pnl, kill switch, open positions and orders of st
SameLedger(state, st) ==
    /\ state.daily_pnl = st.daily_pnl
    /\ state.kill_switch_active = st.kill_switch_active
    /\ state.open_positions = st.open_positions
    /\ state.orders = st.orders

\* C10: load returns a fresh zeroed state when the file is absent, unparsable or
\* last updated before today, and otherwise the state that was last saved
C10_LoadOutcome ==
    store.loaded =>
        IF ledger.file.kind # "json" THEN ledger.state = TradeStateInit(today)
        ELSE IF store.saved.last_updated < today THEN ledger.state = TradeStateInit(today)
        ELSE SameLedger(ledger.state, store.saved)

\* load has returned a state saved earlier the same day: a P&L, an open position
\* and an order in it
C10_Witness ==
    /\ store.loaded
    /\ ledger.file.kind = "json"
    /\ store.saved.last_updated = today
    /\ ledger.state.daily_pnl # 0
    /\ ledger.state.open_positions # << >>
    /\ ledger.state.orders # << >>

(***************************************************************************)
(* The event stream of POST /api/backtest/run: backtest_event_generator    *)
(* starts a worker thread that puts events on a queue.Queue, and yields    *)
(* what it gets from the queue until it gets None.  run holds the worker's *)
(* position, the queue, everything ever put, and what the generator has    *)
(* yielded.                                                                *)
(***************************************************************************)
MaxProgress == 2
ProgressPcts == {2, 55}

Sentinel == [type |-> "None", value |-> 0]
ProgressEvent(pct) == [type |-> "progress", value |-> pct]
ResultEvent == [type |-> "result", value |-> 0]
ErrorEvent == [type |-> "error", value |-> 0]

StreamInit ==
    /\ LiveInit
    /\ mode = "stream"
    /\ store = NoSave
    /\ run = [worker |-> "start", q |-> << >>, put |-> << >>, gen |-> "waiting", out |-> << >>]

StreamFrame == UNCHANGED <<risk_manager, ledger, paper_broker, today, ever_tripped, mode, store>>

\* q.put(item); put keeps everything the queue has received
q_put(r, item) == [r EXCEPT !.q = Append(@, item), !.put = Append(@, item)]

\* a worker whose finally clause puts nothing
worker_finally_without_sentinel(r) == [r EXCEPT !.worker = "done"]

\* finally: q.put(None)
worker_finally(r) == [q_put(r, Sentinel) EXCEPT !.worker = "done"]

\* on_progress(1, "Initializing Backtest Engine..."), the first statement of the worker
WorkerStart ==
    /\ mode = "stream" /\ run.worker = "start"
    /\ run' = [q_put(run, ProgressEvent(1)) EXCEPT !.worker = "running"]
    /\ StreamFrame

\* a later on_progress(pct, msg), from the worker or from BacktestRunner.run
WorkerProgress(pct) ==
    /\ mode = "stream" /\ run.worker = "running"
    /\ Len(run.put) <= MaxProgress
    /\ run' = q_put(run, ProgressEvent(pct))
    /\ StreamFrame

\* an exception before the result is queued: the except clause is entered
WorkerRaises ==
    /\ mode = "stream" /\ run.worker = "running"
    /\ run' = [run EXCEPT !.worker = "except"]
    /\ StreamFrame

\* backtester.run returned a report; json.dumps(report) passes or raises
WorkerReturns(serializable) ==
    /\ mode = "stream" /\ run.worker = "running"
    /\ run' = [run EXCEPT !.worker = IF serializable THEN "test_passed" ELSE "test_failed"]
    /\ StreamFrame

\* q.put({"type": "result", "data": report})
WorkerPutResult ==
    /\ mode = "stream" /\ run.worker = "test_passed"
    /\ run' = [q_put(run, ResultEvent) EXCEPT !.worker = "finally"]
    /\ StreamFrame

\* except Exception as e: q.put({"type": "error", "message": str(e)})
WorkerPutError ==
    /\ mode = "stream" /\ run.worker = "except"
    /\ run' = [q_put(run, ErrorEvent) EXCEPT !.worker = "finally"]
    /\ StreamFrame

\* except Exception as json_err: q.put({"type": "error", ...})
WorkerPutSerializationError ==
    /\ mode = "stream" /\ run.worker = "test_failed"
    /\ run' = [q_put(run, ErrorEvent) EXCEPT !.worker = "return"]
    /\ StreamFrame

\* q.put(None); return: the return runs the finally clause next
WorkerEarlySentinel ==
    /\ mode = "stream" /\ run.worker = "return"
    /\ run' = [q_put(run, Sentinel) EXCEPT !.worker = "finally"]
    /\ StreamFrame

WorkerFinally ==
    /\ mode = "stream" /\ run.worker = "finally"
    /\ run' = worker_finally(run)
    /\ StreamFrame

\* item = q.get(), which blocks on an empty queue; if item is None: break;
\* yield json.dumps(item)
GeneratorGet ==
    /\ mode = "stream" /\ run.gen = "waiting" /\ run.q # << >>
    /\ run' = IF Head(run.q) = Sentinel
              THEN [run EXCEPT !.q = Tail(@), !.gen = "stopped"]
              ELSE [run EXCEPT !.q = Tail(@), !.out = Append(@, Head(run.q))]
    /\ StreamFrame

WorkerNext ==
    \/ WorkerStart
    \/ \E pct \in ProgressPcts : WorkerProgress(pct)
    \/ WorkerRaises
    \/ \E serializable \in BOOLEAN : WorkerReturns(serializable)
    \/ WorkerPutResult
    \/ WorkerPutError
    \/ WorkerPutSerializationError
    \/ WorkerEarlySentinel
    \/ WorkerFinally

StreamNext == WorkerNext \/ GeneratorGet

\* the worker is a started thread and the response keeps iterating the generator
SpecStream ==
    StreamInit /\ [][StreamNext]_vars /\ WF_vars(WorkerNext) /\ WF_vars(GeneratorGet)

\* the events of s before its first sentinel
RECURSIVE C34_BeforeSentinel(_)
C34_BeforeSentinel(s) ==
    IF s = << >> \/ Head(s) = Sentinel THEN << >>
    ELSE <<Head(s)>> \o C34_BeforeSentinel(Tail(s))

\* s is progress events, then at most one result or error event
C34_ProgressThenOutcome(s) ==
    \A i \in DOMAIN s :
        \/ s[i].type = "progress"
        \/ i = Len(s) /\ s[i].type \in {"result", "error"}

\* what the queue has received is progress events, at most one result or error event,
\* then only sentinels; what the generator has yielded is a prefix of the events before
\* the first sentinel, and all of them once it has stopped
C34_Shape ==
    LET events == C34_BeforeSentinel(run.put)
    IN  /\ C34_ProgressThenOutcome(events)
        /\ \A i \in DOMAIN run.put : i > Len(events) => run.put[i] = Sentinel
        /\ Len(run.out) <= Len(events)
        /\ run.out = SubSeq(events, 1, Len(run.out))
        /\ run.gen = "stopped" => run.out = events
        /\ run.worker = "done" => Len(run.put) > Len(events)

\* C34: every backtest event stream terminates: whatever the worker's outcome (a
\* result, an exception during the run, a report that cannot be serialized), the queue
\* receives progress events, then at most one result or error event, then the sentinel,
\* and the generator stops at the first sentinel
C34_StreamTerminates == [](mode = "stream" => C34_Shape) /\ <>(run.gen = "stopped")

\* the generator has stopped after an error event while a second sentinel, put by the
\* finally clause after the report failed to serialize, is still in the queue
C34_Witness ==
    /\ mode = "stream"
    /\ run.gen = "stopped"
    /\ run.worker = "done"
    /\ run.q = <<Sentinel>>
    /\ run.out # << >>
    /\ run.out[Len(run.out)] = ErrorEvent

(***************************************************************************)
(* The market data loop as an asyncio task: the startup event and the      *)
(* reload-token endpoint create market_data_loop tasks, the shutdown event *)
(* clears is_server_running.  A task runs without interruption between two *)
(* awaits, so its entry guard, and each iteration up to its sleep, is one  *)
(* step.  run holds the two module flags and the tasks created so far.     *)
(***************************************************************************)
MaxTasks == 3
IterationOutcomes == {"ok", "skipped", "raised"}

NewTask == [pc |-> "created", polled |-> FALSE, caught |-> FALSE, recovered |-> FALSE]

LoopInit ==
    /\ LiveInit
    /\ mode = "loop"
    /\ store = NoSave
    /\ run = [is_server_running |-> TRUE, is_loop_running |-> FALSE, tasks |-> << >>]

LoopFrame == UNCHANGED <<risk_manager, ledger, paper_broker, today, ever_tripped, mode, store>>

\* the positions of a task that is inside the loop
InLoop == {"head", "sleeping", "raising", "except_sleep"}

\* asyncio.create_task(market_data_loop()), n times
create_task(r, n) == [r EXCEPT !.tasks = @ \o [i \in 1..n |-> NewTask]]

\* startup_event: is_server_running = True; one task after reload_session succeeded
\* (line 1447) and one at the end of the instrument setup (line 1540)
StartupEvent(connected, seeded) ==
    LET n == (IF connected THEN 1 ELSE 0) + (IF seeded THEN 1 ELSE 0)
    IN  /\ mode = "loop"
        /\ Len(run.tasks) + n <= MaxTasks
        /\ run' = create_task([run EXCEPT !.is_server_running = TRUE], n)
        /\ LoopFrame

\* reload_token_endpoint: if not is_loop_running: create_task(market_data_loop())
ReloadToken ==
    /\ mode = "loop"
    /\ Len(run.tasks) < MaxTasks
    /\ run' = IF run.is_loop_running THEN run ELSE create_task(run, 1)
    /\ LoopFrame

\* shutdown_event: is_server_running = False
ShutdownEvent ==
    /\ mode = "loop"
    /\ run' = [run EXCEPT !.is_server_running = FALSE]
    /\ LoopFrame

\* an entry of market_data_loop that does not look at the flag
market_loop_guard_unchecked(r, t) ==
    [r EXCEPT !.is_loop_running = TRUE, !.tasks[t].pc = "head"]

\* if is_loop_running: return; is_loop_running = True
market_loop_guard(r, t) ==
    IF r.is_loop_running
    THEN [r EXCEPT !.tasks[t].pc = "returned"]
    ELSE [r EXCEPT !.is_loop_running = TRUE, !.tasks[t].pc = "head"]

\* an except clause that lets the exception out of the task
loop_except_unhandled(task) == [task EXCEPT !.pc = "crashed"]

\* except Exception as e: logger.error(...); await asyncio.sleep(1)
loop_except(task) == [task EXCEPT !.pc = "except_sleep", !.caught = TRUE]

\* the task is scheduled for the first time
TaskStart(t) ==
    /\ mode = "loop" /\ t \in DOMAIN run.tasks /\ run.tasks[t].pc = "created"
    /\ run' = market_loop_guard(run, t)
    /\ LoopFrame

\* while is_server_running: one iteration up to its sleep, or to the point where it
\* raises; after the loop: is_loop_running = False
TaskIterate(t, outcome) ==
    /\ mode = "loop" /\ t \in DOMAIN run.tasks /\ run.tasks[t].pc = "head"
    /\ run' = IF ~run.is_server_running
              THEN [run EXCEPT !.is_loop_running = FALSE, !.tasks[t].pc = "stopped"]
              ELSE [run EXCEPT !.tasks[t] =
                        [@ EXCEPT !.pc = IF outcome = "raised" THEN "raising" ELSE "sleeping",
                                  !.polled = TRUE,
                                  !.recovered = @ \/ (run.tasks[t].caught /\ outcome = "ok")]]
    /\ LoopFrame

TaskExcept(t) ==
    /\ mode = "loop" /\ t \in DOMAIN run.tasks /\ run.tasks[t].pc = "raising"
    /\ run' = [run EXCEPT !.tasks[t] = loop_except(@)]
    /\ LoopFrame

\* await asyncio.sleep(...) returns
TaskWake(t) ==
    /\ mode = "loop" /\ t \in DOMAIN run.tasks
    /\ run.tasks[t].pc \in {"sleeping", "except_sleep"}
    /\ run' = [run EXCEPT !.tasks[t].pc = "head"]
    /\ LoopFrame

TaskStep(t) ==
    \/ TaskStart(t)
    \/ \E outcome \in IterationOutcomes : TaskIterate(t, outcome)
    \/ TaskExcept(t)
    \/ TaskWake(t)

LoopNext ==
    \/ \E connected \in BOOLEAN, seeded \in BOOLEAN : StartupEvent(connected, seeded)
    \/ ReloadToken
    \/ ShutdownEvent
    \/ \E t \in 1..MaxTasks : TaskStep(t)

\* the event loop runs every task that is ready, and every sleep returns
SpecLoop == LoopInit /\ [][LoopNext]_vars /\ \A t \in 1..MaxTasks : WF_vars(TaskStep(t))

C35_Task(t) == IF t \in DOMAIN run.tasks THEN run.tasks[t] ELSE NewTask

\* a task leaves the loop only with is_server_running cleared
C35_EndsOnlyWhenCleared ==
    \A t \in DOMAIN run.tasks :
        (run.tasks[t].pc \in InLoop /\ run'.tasks[t].pc \notin InLoop)
            => (~run.is_server_running /\ run'.tasks[t].pc = "stopped")

\* C35: the market loop survives upstream errors: an exception inside an iteration
\* is caught, the loop sleeps and comes back to its while test, and a task leaves the
\* loop only when is_server_running is cleared
C35_LoopSurvives ==
    /\ [][C35_EndsOnlyWhenCleared]_vars
    /\ \A t \in 1..MaxTasks : (C35_Task(t).pc = "raising") ~> (C35_Task(t).pc = "except_sleep")
    /\ \A t \in 1..MaxTasks : (C35_Task(t).pc = "except_sleep") ~> (C35_Task(t).pc = "head")

\* a task has completed an iteration after one of its iterations raised
C35_Witness ==
    /\ mode = "loop"
    /\ \E t \in DOMAIN run.tasks :
          /\ run.tasks[t].caught /\ run.tasks[t].recovered
          /\ run.tasks[t].pc = "sleeping"

\* C39: at most one market data loop is active: at most one task is inside the loop,
\* is_loop_running is set exactly while one is, a task scheduled for the first time
\* while another is inside the loop returns, and a task that returned has never polled
C39_SingleLoop ==
    mode = "loop" =>
        LET active == {t \in DOMAIN run.tasks : run.tasks[t].pc \in InLoop}
        IN  /\ Cardinality(active) <= 1
            /\ run.is_loop_running <=> active # {}
            /\ \A t \in DOMAIN run.tasks :
                  /\ (run.tasks[t].pc = "created" /\ active # {})
                        => market_loop_guard(run, t).tasks[t].pc = "returned"
                  /\ run.tasks[t].pc = "returned" => ~run.tasks[t].polled

\* one task is polling while two others, started while it was running, have returned
\* without polling
C39_Witness ==
    /\ mode = "loop"
    /\ Len(run.tasks) = 3
    /\ \E t \in DOMAIN run.tasks :
          /\ run.tasks[t].pc \in InLoop /\ run.tasks[t].polled
          /\ \A u \in DOMAIN run.tasks \ {t} :
                run.tasks[u].pc = "returned" /\ ~run.tasks[u].polled

(***************************************************************************)
(* The RiskManager on its own, under any sequence of update_pnl and        *)
(* restore_state calls.  run counts the calls of each method.              *)
(***************************************************************************)
MaxRiskCalls == 4
RiskPnls == {150000, -400000, -700000, -30000000}
RestoredPnls == {0, -400000, -1500000, -30000000}
SizingSetups == {<<10000, 9000>>, <<12000, 10800>>, <<10000, 10000>>}

RiskInit ==
    /\ LiveInit
    /\ mode = "risk"
    /\ store = NoSave
    /\ run = [update_pnl |-> 0, restore_state |-> 0]

RiskFrame == UNCHANGED <<ledger, paper_broker, today, ever_tripped, mode, store>>

RiskUpdatePnl(pnl) ==
    /\ mode = "risk"
    /\ run.update_pnl + run.restore_state < MaxRiskCalls
    /\ risk_manager' = update_pnl(risk_manager, pnl)
    /\ run' = [run EXCEPT !.update_pnl = @ + 1]
    /\ RiskFrame

RiskRestoreState(daily_pnl, kill_switch_active) ==
    /\ mode = "risk"
    /\ run.update_pnl + run.restore_state < MaxRiskCalls
    /\ risk_manager' = restore_state(risk_manager, daily_pnl, kill_switch_active)
    /\ run' = [run EXCEPT !.restore_state = @ + 1]
    /\ RiskFrame

RiskNext ==
    \/ \E pnl \in RiskPnls : RiskUpdatePnl(pnl)
    \/ \E daily_pnl \in RestoredPnls, kill_switch_active \in BOOLEAN :
         RiskRestoreState(daily_pnl, kill_switch_active)

SpecRisk == RiskInit /\ [][RiskNext]_vars

\* C37: get_target_size never returns a negative quantity: in every state reached by
\* update_pnl and restore_state calls the result is 0 or a positive multiple of the
\* lot size
C37_SizeNeverNegative ==
    mode = "risk" =>
        \A su \in SizingSetups :
            LET size == get_target_size(risk_manager, su[1], su[2])
            IN  size >= 0 /\ size % LOT_SIZE = 0

\* reached by update_pnl calls alone, the result is 0 or a positive multiple of the lot
\* size: a loss that takes current_capital below zero has also tripped the switch
C37_UpdatesNeverNegative ==
    (mode = "risk" /\ run.restore_state = 0) =>
        \A su \in SizingSetups :
            LET size == get_target_size(risk_manager, su[1], su[2])
            IN  size >= 0 /\ size % LOT_SIZE = 0

\* C38: after any sequence of update_pnl and restore_state calls,
\* current_capital = total_capital + daily_pnl
C38_CapitalIdentity ==
    mode = "risk" =>
        risk_manager.current_capital = risk_manager.total_capital + risk_manager.daily_pnl

\* both methods have been called and the day's P&L has moved the capital
C38_Witness ==
    /\ mode = "risk"
    /\ run.update_pnl >= 2 /\ run.restore_state >= 1
    /\ risk_manager.daily_pnl \notin RestoredPnls
    /\ risk_manager.current_capital # risk_manager.total_capital

====
